---- MODULE Spec2Model ----
(***************************************************************************)
(* Zeus 5.0: setup detection, multi-timeframe reconciliation and risk      *)
(* validation (backend/gorila_strategies.py, backend/risk_management.py,   *)
(* backend/main.py).                                                       *)
(*                                                                         *)
(* Numbers.  Prices are integers counted in units of 0.0001 (one "tick" of *)
(* the source), so the literal 0.0001 is 1 and 0.0002 is 2.  Every derived *)
(* float of the source (averages, slopes, ratios) is an exact rational     *)
(* [n, d] with d > 0; d = 0 is NaN, and, as for an IEEE NaN, every         *)
(* comparison with it is false.  The exponential average keeps its weights *)
(* (1 - alpha)^k in fixed point (EmaScale), which is the one place where   *)
(* the model rounds differently from a 64-bit float.                       *)
(***************************************************************************)
EXTENDS Integers, Sequences, FiniteSets, TLC

VARIABLES sc_det, sc_data, sc_pc, sc_i, sc_st, sc_ret
VARIABLES b_timeframes, b_pc, b_k, b_acc, b_ret
VARIABLES m_outcomes, m_pc, m_k, m_timeframes, m_ret
VARIABLES g_main, g_outcomes, g_pc, g_mtf, g_setups, g_ret
VARIABLES c_op, c_in, c_pc, c_ret
VARIABLES a_results, a_pc, a_k, a_signals, a_ret
VARIABLES f_main, f_order, f_pc, f_k, f_heap, f_results

scanVars == <<sc_det, sc_data, sc_pc, sc_i, sc_st, sc_ret>>
biasVars == <<b_timeframes, b_pc, b_k, b_acc, b_ret>>
mtfVars == <<m_outcomes, m_pc, m_k, m_timeframes, m_ret>>
signalVars == <<g_main, g_outcomes, g_pc, g_mtf, g_setups, g_ret>>
callVars == <<c_op, c_in, c_pc, c_ret>>
batchVars == <<a_results, a_pc, a_k, a_signals, a_ret>>
frameVars == <<f_main, f_order, f_pc, f_k, f_heap, f_results>>
vars == <<scanVars, biasVars, mtfVars, signalVars, callVars, batchVars, frameVars>>

\* each specification below runs one operation; the variables of the other
\* operations rest at these values
ScanIdle ==
    /\ sc_det = "none" /\ sc_data = <<>> /\ sc_pc = "off"
    /\ sc_i = 0 /\ sc_st = <<>> /\ sc_ret = <<>>
BiasIdle ==
    /\ b_timeframes = <<>> /\ b_pc = "off" /\ b_k = 0 /\ b_acc = <<>> /\ b_ret = "none"
MtfIdle ==
    /\ m_outcomes = <<>> /\ m_pc = "off" /\ m_k = 0 /\ m_timeframes = <<>> /\ m_ret = <<>>
SignalIdle ==
    /\ g_main = <<>> /\ g_outcomes = <<>> /\ g_pc = "off"
    /\ g_mtf = <<>> /\ g_setups = <<>> /\ g_ret = <<>>
CallIdle ==
    /\ c_op = "none" /\ c_in = <<>> /\ c_pc = "off" /\ c_ret = <<>>
BatchIdle ==
    /\ a_results = <<>> /\ a_pc = "off" /\ a_k = 0 /\ a_signals = <<>> /\ a_ret = <<>>
FrameIdle ==
    /\ f_main = <<>> /\ f_order = <<>> /\ f_pc = "off" /\ f_k = 0
    /\ f_heap = <<>> /\ f_results = <<>>

(***************************************************************************)
(* Rationals                                                               *)
(***************************************************************************)
R(n, d) == [n |-> n, d |-> d]
RInt(k) == [n |-> k, d |-> 1]
NaN == [n |-> 0, d |-> 0]
IsNaN(a) == a.d = 0
RAdd(a, b) == IF a.d = 0 \/ b.d = 0 THEN NaN ELSE R(a.n * b.d + b.n * a.d, a.d * b.d)
RSub(a, b) == IF a.d = 0 \/ b.d = 0 THEN NaN ELSE R(a.n * b.d - b.n * a.d, a.d * b.d)
RMul(a, b) == IF a.d = 0 \/ b.d = 0 THEN NaN ELSE R(a.n * b.n, a.d * b.d)
RAbs(a) == IF a.n < 0 THEN R(0 - a.n, a.d) ELSE a
\* a / b for b # 0 (numpy: x / 0 is inf or NaN; the model's prices are positive)
RDiv(a, b) ==
    IF a.d = 0 \/ b.d = 0 \/ b.n = 0 THEN NaN
    ELSE IF b.n > 0 THEN R(a.n * b.d, a.d * b.n) ELSE R(0 - a.n * b.d, 0 - a.d * b.n)
RLt(a, b) == a.d > 0 /\ b.d > 0 /\ a.n * b.d < b.n * a.d
RGt(a, b) == RLt(b, a)
RLe(a, b) == a.d > 0 /\ b.d > 0 /\ a.n * b.d <= b.n * a.d
RGe(a, b) == RLe(b, a)
REq(a, b) == a.d > 0 /\ b.d > 0 /\ a.n * b.d = b.n * a.d
\* Python's min(a, b) is "b if b < a else a", max(a, b) is "b if b > a else a"
RMin(a, b) == IF RLt(b, a) THEN b ELSE a
RMax(a, b) == IF RGt(b, a) THEN b ELSE a
Zero == RInt(0)
Min(a, b) == IF a < b THEN a ELSE b
Max(a, b) == IF a > b THEN a ELSE b

(***************************************************************************)
(* Frames: a record of columns, each a sequence with one value per bar.    *)
(* iloc is 0-based as in the source.                                       *)
(***************************************************************************)
iloc(col, i) == col[i + 1]
len(data) == Len(data.close)
SetCol(data, name, col) == (name :> col) @@ data
RCol(data, name) == [t \in 1..len(data) |-> RInt(data[name][t])]

RECURSIVE SumRange(_, _, _)
SumRange(col, lo, hi) ==
    CASE lo > hi -> 0
      [] lo = hi -> iloc(col, lo)
      [] OTHER -> SumRange(col, lo, (lo + hi) \div 2) + SumRange(col, (lo + hi) \div 2 + 1, hi)

\* Series.rolling(window).mean(): NaN until the window is full
rolling_mean(col, window) ==
    [t \in 1..Len(col) |->
        IF t < window THEN NaN ELSE R(SumRange(col, t - window, t - 1), window)]

\* Series.ewm(span).mean(), adjust=True: the weights (1 - alpha)^k,
\* alpha = 2 / (span + 1), of the bars t, t-1, ..., 0, normalised by their sum
EmaScale == 100
RECURSIVE WeightSeq(_, _)
WeightSeq(span, w) ==
    IF w = 0 THEN <<>> ELSE <<w>> \o WeightSeq(span, ((span - 1) * w) \div (span + 1))
Span9 == 9
Weights9 == WeightSeq(Span9, EmaScale)
\* the weighted sum of the bars t - lo, ..., t - hi, and of the bars t, ..., t - k
RECURSIVE WRange(_, _, _, _, _)
WRange(W, col, t, lo, hi) ==
    CASE lo > hi -> 0
      [] lo = hi -> W[lo + 1] * iloc(col, t - lo)
      [] OTHER -> WRange(W, col, t, lo, (lo + hi) \div 2)
                  + WRange(W, col, t, (lo + hi) \div 2 + 1, hi)
WSum(W, col, t, k) == WRange(W, col, t, 0, k)
WTot(W, k) == SumRange(W, 0, k)
ewm_mean(col, W) ==
    [t \in 1..Len(col) |->
        LET m == Min(t - 1, Len(W) - 1) IN R(WSum(W, col, t - 1, m), WTot(W, m))]

\* Series.diff(): NaN at bar 0
diff(col) == [t \in 1..Len(col) |-> IF t = 1 THEN NaN ELSE RSub(col[t], col[t - 1])]

(***************************************************************************)
(* GorilaStrategies: the five setup detectors.  Each is a length check, a  *)
(* computation of its columns on the frame it was handed, a scan that      *)
(* appends every match to "signals", and a return of signals[-1].          *)
(***************************************************************************)
Detectors ==
    {"setup_91_compra", "setup_91_venda", "setup_92", "setup_ponto_continuo",
     "setup_agulhada"}

Tick == 1
StopOffset == 2
\* a faulty variant: the needle ceiling copied to the structural setups
MaxRiskPct_loose == R(25, 1000)
MaxRiskPct == R(2, 100)
MaxRiskPctAgulhada == R(25, 1000)
\* a faulty variant: a tolerance of 0.2%
MA21Tolerance_loose == R(2, 1000)
MA21Tolerance == R(1, 1000)

\* a faulty variant: the needle detector tests the loop start, not its window
MinBars_short(det) ==
    CASE det = "setup_ponto_continuo" -> 25
      [] det = "setup_agulhada" -> 50
      [] OTHER -> 10

MinBars(det) ==
    CASE det = "setup_ponto_continuo" -> 25
      [] det = "setup_agulhada" -> 55
      [] OTHER -> 10

LoopStart(det) ==
    CASE det = "setup_ponto_continuo" -> 21
      [] det = "setup_agulhada" -> 50
      [] OTHER -> 2

\* the columns a detector writes into its frame before it scans
WithMme9(data) ==
    LET mme9 == ewm_mean(data.close, Weights9)
    IN SetCol(SetCol(data, "mme9", mme9), "mme9_slope", diff(mme9))
WithMma21(data) ==
    LET mma21 == rolling_mean(data.close, 21)
    IN SetCol(SetCol(data, "mma21", mma21), "mma21_slope", diff(mma21))
WithMma50(data) ==
    LET mma50 == rolling_mean(data.close, 50)
    IN SetCol(SetCol(data, "mma50", mma50), "mma50_slope", diff(mma50))
Columns(det, data) ==
    CASE det = "setup_ponto_continuo" -> WithMma21(data)
      [] det = "setup_agulhada" -> WithMma50(WithMma21(WithMme9(data)))
      [] OTHER -> WithMme9(data)

\* the scan's local state: the list of matches, and the locals entry_price,
\* stop_loss, signal_type of setup_agulhada, which are bound by the first
\* assignment and keep their values between iterations
NoSignals ==
    [signals |-> <<>>, bound |-> FALSE, entry_price |-> NaN, stop_loss |-> NaN,
     signal_type |-> "unbound"]

Occurrence(type, entry_price, stop_loss, i, risk_pct) ==
    [type |-> type, entry_price |-> entry_price, stop_loss |-> stop_loss,
     index |-> i, risk_pct |-> risk_pct]

High(data, i) == RInt(iloc(data.high, i))
Low(data, i) == RInt(iloc(data.low, i))
Close(data, i) == RInt(iloc(data.close, i))

setup_91_compra_body(data, i, st) ==
    LET prev_slope == iloc(data.mme9_slope, i - 1)
        curr_slope == iloc(data.mme9_slope, i)
        entry_price == RAdd(High(data, i), RInt(Tick))
        stop_loss == Low(data, i)
        risk_pct == RDiv(RAbs(RSub(entry_price, stop_loss)), entry_price)
    IN IF RLt(prev_slope, Zero) /\ RGt(curr_slope, Zero) /\ RLe(risk_pct, MaxRiskPct)
       THEN [st EXCEPT !.signals =
                Append(@, Occurrence("SETUP_91_COMPRA", entry_price, stop_loss, i, risk_pct))]
       ELSE st

setup_91_venda_body(data, i, st) ==
    LET prev_slope == iloc(data.mme9_slope, i - 1)
        curr_slope == iloc(data.mme9_slope, i)
        entry_price == RSub(Low(data, i), RInt(Tick))
        stop_loss == High(data, i)
        risk_pct == RDiv(RAbs(RSub(entry_price, stop_loss)), entry_price)
    IN IF RGt(prev_slope, Zero) /\ RLt(curr_slope, Zero) /\ RLe(risk_pct, MaxRiskPct)
       THEN [st EXCEPT !.signals =
                Append(@, Occurrence("SETUP_91_VENDA", entry_price, stop_loss, i, risk_pct))]
       ELSE st

setup_92_body(data, i, st) ==
    LET entry_price == RAdd(High(data, i), RInt(Tick))
        stop_loss == Low(data, i)
        risk_pct == RDiv(RAbs(RSub(entry_price, stop_loss)), entry_price)
    IN IF /\ RGt(iloc(data.mme9_slope, i), Zero)
          /\ RLt(Close(data, i), Low(data, i - 1))
          /\ RLe(risk_pct, MaxRiskPct)
       THEN [st EXCEPT !.signals =
                Append(@, Occurrence("SETUP_92", entry_price, stop_loss, i, risk_pct))]
       ELSE st

setup_ponto_continuo_body(data, i, st) ==
    LET mma21 == iloc(data.mma21, i)
        distance_to_ma21 == RDiv(RAbs(RSub(Low(data, i), mma21)), Close(data, i))
        recent_above_ma21 ==
            \A j \in Max(0, i - 5)..(i - 1) : RGt(Close(data, j), iloc(data.mma21, j))
        entry_price == RAdd(High(data, i), RInt(Tick))
        stop_loss == RSub(mma21, RInt(StopOffset))
        risk_pct == RDiv(RAbs(RSub(entry_price, stop_loss)), entry_price)
    IN IF /\ RGt(iloc(data.mma21_slope, i), Zero)
          /\ RLe(distance_to_ma21, MA21Tolerance)
          /\ recent_above_ma21
          /\ RLe(risk_pct, MaxRiskPct)
       THEN [st EXCEPT !.signals =
                Append(@, Occurrence("PONTO_CONTINUO", entry_price, stop_loss, i, risk_pct))]
       ELSE st

ma_alignment_bull(data, i) ==
    RGt(iloc(data.mme9, i), iloc(data.mma21, i)) /\ RGt(iloc(data.mma21, i), iloc(data.mma50, i))
ma_alignment_bear(data, i) ==
    RLt(iloc(data.mme9, i), iloc(data.mma21, i)) /\ RLt(iloc(data.mma21, i), iloc(data.mma50, i))
in_candle(data, i, col) ==
    RLe(Low(data, i), iloc(data[col], i)) /\ RLe(iloc(data[col], i), High(data, i))
\* a faulty variant: the slowest average is not required to cross the candle
medias_no_candle_two(data, i) ==
    in_candle(data, i, "mme9") /\ in_candle(data, i, "mma21")
medias_no_candle(data, i) ==
    in_candle(data, i, "mme9") /\ in_candle(data, i, "mma21") /\ in_candle(data, i, "mma50")
medias_inclinadas_bull(data, i) ==
    /\ RGt(iloc(data.mme9_slope, i), Zero)
    /\ RGt(iloc(data.mma21_slope, i), Zero)
    /\ RGe(iloc(data.mma50_slope, i), Zero)
medias_inclinadas_bear(data, i) ==
    /\ RLt(iloc(data.mme9_slope, i), Zero)
    /\ RLt(iloc(data.mma21_slope, i), Zero)
    /\ RLe(iloc(data.mma50_slope, i), Zero)

\* lines 296-321: the assignments to entry_price, stop_loss, signal_type, made
\* only when the slopes agree; otherwise the locals keep what they held
agulhada_locals(data, i, st) ==
    IF ma_alignment_bull(data, i)
    THEN IF medias_inclinadas_bull(data, i)
         THEN [st EXCEPT !.bound = TRUE,
                         !.entry_price = RAdd(High(data, i), RInt(Tick)),
                         !.stop_loss =
                             RSub(RMin(iloc(data.mme9, i), iloc(data.mma21, i)), RInt(StopOffset)),
                         !.signal_type = "AGULHADA_COMPRA"]
         ELSE st
    ELSE IF ma_alignment_bear(data, i) /\ medias_inclinadas_bear(data, i)
         THEN [st EXCEPT !.bound = TRUE,
                         !.entry_price = RSub(Low(data, i), RInt(Tick)),
                         !.stop_loss =
                             RAdd(RMax(iloc(data.mme9, i), iloc(data.mma21, i)), RInt(StopOffset)),
                         !.signal_type = "AGULHADA_VENDA"]
         ELSE st

\* lines 323-333: "if 'signal_type' in locals()" and the risk ceiling
agulhada_record(i, st) ==
    LET risk_pct == RDiv(RAbs(RSub(st.entry_price, st.stop_loss)), st.entry_price)
    IN IF st.bound /\ RLe(risk_pct, MaxRiskPctAgulhada)
       THEN [st EXCEPT !.signals =
                Append(@, Occurrence(st.signal_type, st.entry_price, st.stop_loss, i, risk_pct))]
       ELSE st

setup_agulhada_body(data, i, st) ==
    IF (ma_alignment_bull(data, i) \/ ma_alignment_bear(data, i)) /\ medias_no_candle(data, i)
    THEN agulhada_record(i, agulhada_locals(data, i, st))
    ELSE st

Body(det, data, i, st) ==
    CASE det = "setup_91_compra" -> setup_91_compra_body(data, i, st)
      [] det = "setup_91_venda" -> setup_91_venda_body(data, i, st)
      [] det = "setup_92" -> setup_92_body(data, i, st)
      [] det = "setup_ponto_continuo" -> setup_ponto_continuo_body(data, i, st)
      [] det = "setup_agulhada" -> setup_agulhada_body(data, i, st)

SetupName(det) ==
    CASE det = "setup_91_compra" -> "9.1 Compra"
      [] det = "setup_91_venda" -> "9.1 Venda"
      [] det = "setup_92" -> "9.2"
      [] det = "setup_ponto_continuo" -> "Ponto Continuo"
      [] det = "setup_agulhada" -> "Agulhada"

BaseConfidence(det, latest_signal) ==
    CASE det = "setup_91_compra" -> 75
      [] det = "setup_91_venda" -> 75
      [] det = "setup_92" -> 70
      [] det = "setup_ponto_continuo" -> 80
      [] det = "setup_agulhada" ->
            IF latest_signal.type = "AGULHADA_COMPRA" THEN 85 ELSE 80

InsufficientData == [signal |-> FALSE, details |-> "Dados insuficientes"]
NotFound == [signal |-> FALSE, details |-> "Condicoes nao atendidas"]

\* "if signals: latest_signal = signals[-1] ..."
Finish(det, st) ==
    IF st.signals # <<>>
    THEN LET latest_signal == st.signals[Len(st.signals)]
         IN [signal |-> TRUE, setup |-> SetupName(det), details |-> latest_signal,
             confidence |-> BaseConfidence(det, latest_signal)]
    ELSE NotFound

\* the iterations lo..hi of the loop, from the state st: the first half, then
\* the second half from the state the first half leaves
RECURSIVE ScanRange(_, _, _, _, _)
ScanRange(det, data, lo, hi, st) ==
    CASE st # st -> st
      [] lo > hi -> st
      [] lo = hi -> Body(det, data, lo, st)
      [] OTHER -> ScanRange(det, data, (lo + hi) \div 2 + 1, hi,
                            ScanRange(det, data, lo, (lo + hi) \div 2, st))
\* "for i in range(i, len(data)):"
ScanFrom(det, data, i, st) == ScanRange(det, data, i, len(data) - 1, st)

\* a detector as the function of the frame it is handed
Detect(det, data) ==
    IF len(data) < MinBars(det) THEN InsufficientData
    ELSE Finish(det, ScanFrom(det, Columns(det, data), LoopStart(det), NoSignals))

(***************************************************************************)
(* Bar series.  A series is a quiet prefix (one price level, or a step up  *)
(* by one tick at bar StepBars) followed by TailBars free bars; a bar      *)
(* opens at the previous close, and the free bars carry a wick of w ticks  *)
(* on both sides.                                                          *)
(***************************************************************************)
BasePrice == 200
TailBars == 4
ExtraBars == 2
CloseMoves == {-1, 0, 1}
MaxWick == 2
Wicks == 0..MaxWick
StepBars == {0, 9}
Tails == [1..TailBars -> {BasePrice + m : m \in CloseMoves}]

SeriesClose(n, stepAt, tail, t) ==
    IF t >= n - TailBars THEN tail[t - (n - TailBars) + 1]
    ELSE IF t < stepAt THEN BasePrice - 1 ELSE BasePrice
SeriesOpen(n, stepAt, tail, t) ==
    IF t = 0 THEN SeriesClose(n, stepAt, tail, 0) ELSE SeriesClose(n, stepAt, tail, t - 1)
SeriesWick(n, w, t) == IF t >= n - TailBars THEN w ELSE 0

Frame(n, stepAt, w, tail, volume) ==
    [open |-> [t \in 1..n |-> SeriesOpen(n, stepAt, tail, t - 1)],
     close |-> [t \in 1..n |-> SeriesClose(n, stepAt, tail, t - 1)],
     high |-> [t \in 1..n |->
                 Max(SeriesOpen(n, stepAt, tail, t - 1), SeriesClose(n, stepAt, tail, t - 1))
                 + SeriesWick(n, w, t - 1)],
     low |-> [t \in 1..n |->
                 Min(SeriesOpen(n, stepAt, tail, t - 1), SeriesClose(n, stepAt, tail, t - 1))
                 - SeriesWick(n, w, t - 1)],
     volume |-> [t \in 1..n |-> volume]]

Lens(det) == (MinBars(det) - 1)..(MinBars(det) + ExtraBars)

\* a price near 1.1000, in ticks
EntryPrice == 11000

(* A shelf: quoted around 1.1000, five low bars, nine bars seven ticks     *)
(* above the shelf, then the shelf itself.  On its last bar SMA21 rises    *)
(* and lies three ticks above the candle.                                  *)
ShelfBars == MinBars("setup_ponto_continuo") + 1
ShelfClose(t) ==
    IF t < 5 THEN EntryPrice - 100 ELSE IF t < 14 THEN EntryPrice + 7 ELSE EntryPrice
ShelfOpen(t) == IF t = 0 THEN ShelfClose(0) ELSE ShelfClose(t - 1)
ShelfFrame ==
    [open |-> [t \in 1..ShelfBars |-> ShelfOpen(t - 1)],
     close |-> [t \in 1..ShelfBars |-> ShelfClose(t - 1)],
     high |-> [t \in 1..ShelfBars |-> Max(ShelfOpen(t - 1), ShelfClose(t - 1))],
     low |-> [t \in 1..ShelfBars |-> Min(ShelfOpen(t - 1), ShelfClose(t - 1))],
     volume |-> [t \in 1..ShelfBars |-> 0]]

(* A ledge: five low bars, twenty bars 21 ticks under 1.1000 and a last bar *)
(* that closes at 1.1000 after a dip; SMA21 ends 20 ticks under the close,   *)
(* 11 ticks over the low for a dip of 10 and 21 ticks for a dip of 20.      *)
LedgeDips == {10, 20}
LedgeClose(t) ==
    IF t < 5 THEN EntryPrice - 100 ELSE IF t < ShelfBars - 1 THEN EntryPrice - 21 ELSE EntryPrice
LedgeOpen(t) == IF t = 0 THEN LedgeClose(0) ELSE LedgeClose(t - 1)
LedgeFrame(dip) ==
    [open |-> [t \in 1..ShelfBars |-> LedgeOpen(t - 1)],
     close |-> [t \in 1..ShelfBars |-> LedgeClose(t - 1)],
     high |-> [t \in 1..ShelfBars |-> Max(LedgeOpen(t - 1), LedgeClose(t - 1))],
     low |-> [t \in 1..ShelfBars |->
                Min(LedgeOpen(t - 1), LedgeClose(t - 1)) - (IF t = ShelfBars THEN dip ELSE 0)],
     volume |-> [t \in 1..ShelfBars |-> 0]]

(***************************************************************************)
(* SpecScan: one detector called on one frame, its scan taken bar by bar.  *)
(***************************************************************************)
NoReturn == [signal |-> FALSE, details |-> "pending"]

ScanInit ==
    /\ sc_det \in Detectors
    /\ \/ \E n \in Lens(sc_det), stepAt \in StepBars, w \in Wicks, tail \in Tails :
             sc_data = Frame(n, stepAt, w, tail, 0)
       \/ sc_det = "setup_ponto_continuo" /\ sc_data \in {ShelfFrame} \cup {LedgeFrame(dip) : dip \in LedgeDips}
    /\ sc_pc = "call"
    /\ sc_i = 0
    /\ sc_st = NoSignals
    /\ sc_ret = NoReturn
    /\ BiasIdle /\ MtfIdle /\ SignalIdle /\ CallIdle /\ BatchIdle /\ FrameIdle

\* the length check and the column assignments that precede the loop
ScanEnter ==
    /\ sc_pc = "call"
    /\ IF len(sc_data) < MinBars(sc_det)
       THEN /\ sc_ret' = InsufficientData
            /\ sc_pc' = "done"
            /\ UNCHANGED <<sc_data, sc_i>>
       ELSE /\ sc_data' = Columns(sc_det, sc_data)
            /\ sc_i' = LoopStart(sc_det)
            /\ sc_pc' = "loop"
            /\ UNCHANGED sc_ret
    /\ UNCHANGED <<sc_det, sc_st>>
    /\ UNCHANGED <<biasVars, mtfVars, signalVars, callVars, batchVars, frameVars>>

ScanStep(det) ==
    /\ sc_pc = "loop"
    /\ sc_det = det
    /\ sc_i < len(sc_data)
    /\ sc_st' = Body(det, sc_data, sc_i, sc_st)
    /\ sc_i' = sc_i + 1
    /\ UNCHANGED <<sc_det, sc_data, sc_pc, sc_ret>>
    /\ UNCHANGED <<biasVars, mtfVars, signalVars, callVars, batchVars, frameVars>>

setup_91_compra_step == ScanStep("setup_91_compra")
setup_91_venda_step == ScanStep("setup_91_venda")
setup_92_step == ScanStep("setup_92")
setup_ponto_continuo_step == ScanStep("setup_ponto_continuo")
setup_agulhada_step == ScanStep("setup_agulhada")

ScanReturn ==
    /\ sc_pc = "loop"
    /\ sc_i >= len(sc_data)
    /\ sc_ret' = Finish(sc_det, sc_st)
    /\ sc_pc' = "done"
    /\ UNCHANGED <<sc_det, sc_data, sc_i, sc_st>>
    /\ UNCHANGED <<biasVars, mtfVars, signalVars, callVars, batchVars, frameVars>>

ScanNext ==
    \/ ScanEnter
    \/ setup_91_compra_step
    \/ setup_91_venda_step
    \/ setup_92_step
    \/ setup_ponto_continuo_step
    \/ setup_agulhada_step
    \/ ScanReturn

SpecScan == ScanInit /\ [][ScanNext]_vars

(***************************************************************************)
(* The setups as the specification states them (section 4.3): trigger,     *)
(* entry, stop and risk ceiling of a bar i of a frame with its columns.    *)
(***************************************************************************)
Slope(data, col, i) == RSub(iloc(data[col], i), iloc(data[col], i - 1))
AllIn(data, i) ==
    \A col \in {"mme9", "mma21", "mma50"} :
        RLe(Low(data, i), iloc(data[col], i)) /\ RLe(iloc(data[col], i), High(data, i))
Ascending(data, i) ==
    RGt(iloc(data.mme9, i), iloc(data.mma21, i)) /\ RGt(iloc(data.mma21, i), iloc(data.mma50, i))
Descending(data, i) ==
    RLt(iloc(data.mme9, i), iloc(data.mma21, i)) /\ RLt(iloc(data.mma21, i), iloc(data.mma50, i))
SlopesUp(data, i) ==
    \A col \in {"mme9", "mma21", "mma50"} : RGt(Slope(data, col, i), Zero)
SlopesDown(data, i) ==
    \A col \in {"mme9", "mma21", "mma50"} : RLt(Slope(data, col, i), Zero)
NeedleBull(data, i) == Ascending(data, i) /\ AllIn(data, i) /\ SlopesUp(data, i)
NeedleBear(data, i) == Descending(data, i) /\ AllIn(data, i) /\ SlopesDown(data, i)

Trigger(det, data, i) ==
    CASE det = "setup_91_compra" ->
            RLt(Slope(data, "mme9", i - 1), Zero) /\ RGt(Slope(data, "mme9", i), Zero)
      [] det = "setup_91_venda" ->
            RGt(Slope(data, "mme9", i - 1), Zero) /\ RLt(Slope(data, "mme9", i), Zero)
      [] det = "setup_92" ->
            RGt(Slope(data, "mme9", i), Zero) /\ iloc(data.close, i) < iloc(data.low, i - 1)
      [] det = "setup_ponto_continuo" ->
            /\ RGt(Slope(data, "mma21", i), Zero)
            /\ RLe(RAbs(RSub(Low(data, i), iloc(data.mma21, i))),
                   RMul(MA21Tolerance, Close(data, i)))
            /\ i >= 5
            /\ \A j \in (i - 5)..(i - 1) : RGt(Close(data, j), iloc(data.mma21, j))
      [] det = "setup_agulhada" -> NeedleBull(data, i) \/ NeedleBear(data, i)

EntryOf(det, data, i) ==
    IF det = "setup_91_venda" \/ (det = "setup_agulhada" /\ Descending(data, i))
    THEN RSub(Low(data, i), RInt(1))
    ELSE RAdd(High(data, i), RInt(1))
StopOf(det, data, i) ==
    CASE det \in {"setup_91_compra", "setup_92"} -> Low(data, i)
      [] det = "setup_91_venda" -> High(data, i)
      [] det = "setup_ponto_continuo" -> RSub(iloc(data.mma21, i), RInt(2))
      [] det = "setup_agulhada" ->
            IF Descending(data, i)
            THEN RAdd(RMax(iloc(data.mme9, i), iloc(data.mma21, i)), RInt(2))
            ELSE RSub(RMin(iloc(data.mme9, i), iloc(data.mma21, i)), RInt(2))
Ceiling(det) == IF det = "setup_agulhada" THEN R(25, 1000) ELSE R(2, 100)
RiskFraction(entry, stop) == RDiv(RAbs(RSub(entry, stop)), entry)
Qualifies(det, data, i) ==
    /\ Trigger(det, data, i)
    /\ RLe(RiskFraction(EntryOf(det, data, i), StopOf(det, data, i)), Ceiling(det))
OverCeiling(det, data, i) ==
    /\ Trigger(det, data, i)
    /\ RGt(RiskFraction(EntryOf(det, data, i), StopOf(det, data, i)), Ceiling(det))
FirstBar(det) == IF det = "setup_ponto_continuo" THEN 21 ELSE IF det = "setup_agulhada" THEN 50 ELSE 2
\* the bars the scan has passed so far
Scanned == IF sc_pc = "call" THEN {} ELSE FirstBar(sc_det)..(sc_i - 1)
Recorded == {sc_st.signals[k] : k \in 1..Len(sc_st.signals)}

(***************************************************************************)
(* Claims on the detectors (SpecScan)                                      *)
(***************************************************************************)
WithinCeiling(s) ==
    /\ REq(s.risk_pct, RiskFraction(s.entry_price, s.stop_loss))
    /\ RLe(RiskFraction(s.entry_price, s.stop_loss), Ceiling(sc_det))

\* C1: whenever a detector returns signal=True, the reported details have
\* risk_pct = |entry_price - stop_loss| / entry_price, at most 0.02 for the four
\* structural setups and at most 0.025 for the Agulhada; the same holds of every
\* occurrence the scan has recorded.
C1_RiskCeiling ==
    /\ \A s \in Recorded : WithinCeiling(s)
    /\ (sc_pc = "done" /\ sc_ret.signal) => WithinCeiling(sc_ret.details)

\* a needle scan that returned a signal after passing a triggering bar whose risk
\* was above the ceiling
C1_Witness ==
    /\ sc_pc = "done"
    /\ sc_ret.signal
    /\ sc_det = "setup_agulhada"
    /\ \E i \in Scanned : OverCeiling(sc_det, sc_data, i)

QualifyingBars == {i \in Scanned : Qualifies(sc_det, sc_data, i)}
MaxOf(S) == CHOOSE m \in S : \A x \in S : x <= m

Threshold(det) ==
    IF det = "setup_agulhada" THEN 55 ELSE IF det = "setup_ponto_continuo" THEN 25 ELSE 10
BarColumns == {"open", "high", "low", "close", "volume"}

\* C7: a detector called on a series shorter than its minimum history (10, 10, 10,
\* 25, 55 bars) returns signal=False with "Dados insuficientes" and has scanned
\* nothing: no column computed, no loop step taken, nothing recorded; on a series
\* of at least that length it never answers "Dados insuficientes".
C7_InsufficientData ==
    sc_pc = "done" =>
        IF len(sc_data) < Threshold(sc_det)
        THEN /\ sc_ret.signal = FALSE
             /\ sc_ret.details = "Dados insuficientes"
             /\ DOMAIN sc_data = BarColumns
             /\ sc_i = 0
             /\ sc_st = NoSignals
        ELSE /\ DOMAIN sc_data # BarColumns
             /\ sc_i = len(sc_data)
             /\ (~sc_ret.signal => sc_ret.details # "Dados insuficientes")

\* the needle detector answering for 54 bars
C7_Witness ==
    /\ sc_pc = "done"
    /\ sc_det = "setup_agulhada"
    /\ len(sc_data) = 54
    /\ sc_ret = InsufficientData

\* C8: the needle detector never records an occurrence at a bar i where one of
\* EMA9(i), SMA21(i), SMA50(i) lies outside [low(i), high(i)].
C8_NeedleInsideCandle ==
    sc_det = "setup_agulhada" =>
        /\ \A s \in Recorded : AllIn(sc_data, s.index)
        /\ (sc_pc = "done" /\ sc_ret.signal) => AllIn(sc_data, sc_ret.details.index)

\* the scan has passed a bar whose averages are ordered and sloped as a needle
\* wants but do not all cross the candle, after an earlier bar had bound the
\* locals, and has recorded nothing at it
C8_Witness ==
    /\ sc_det = "setup_agulhada"
    /\ sc_st.bound
    /\ sc_st.signals # <<>>
    /\ \E i \in Scanned :
          /\ i > sc_st.signals[1].index
          /\ ~AllIn(sc_data, i)
          /\ \/ Ascending(sc_data, i) /\ SlopesUp(sc_data, i)
             \/ Descending(sc_data, i) /\ SlopesDown(sc_data, i)
          /\ \A s \in Recorded : s.index # i

\* C9: every occurrence the needle detector records at bar i satisfies at bar i
\* the strict ordering, the containment in [low(i), high(i)] and the agreement of
\* the three slopes with the alignment direction, its type being that direction.
C9_NeedleTrigger ==
    sc_det = "setup_agulhada" =>
        \A s \in Recorded :
            \/ s.type = "AGULHADA_COMPRA" /\ NeedleBull(sc_data, s.index)
            \/ s.type = "AGULHADA_VENDA" /\ NeedleBear(sc_data, s.index)

(***************************************************************************)
(* _determine_overall_bias.  The timeframes dict is a sequence of items in *)
(* insertion order; an item is the key tf with the fields of its analysis  *)
(* that the aggregation reads.                                             *)
(***************************************************************************)
RECURSIVE GCD(_, _)
GCD(a, b) ==
    CASE b = 0 -> a
      [] b # 0 /\ a % b = 0 -> b
      [] b # 0 /\ a % b # 0 /\ b % (a % b) = 0 -> a % b
      [] OTHER -> GCD(b % (a % b), (a % b) % (b % (a % b)))
\* the same number in lowest terms (a float has one value for 60/100 and 6/10)
Reduce(a) ==
    IF a.d = 0 THEN NaN
    ELSE LET g == GCD(IF a.n < 0 THEN 0 - a.n ELSE a.n, a.d) IN R(a.n \div g, a.d \div g)

Item(tf, trend, trend_strength, aligned) ==
    [tf |-> tf, trend |-> trend, trend_strength |-> trend_strength, aligned |-> aligned]

weights == [tf \in {"1wk", "1d", "1h", "15m"} |->
               CASE tf = "1wk" -> 40 [] tf = "1d" -> 30 [] tf = "1h" -> 20 [] tf = "15m" -> 10]

\* a faulty variant: the weight is not scaled by the strength
adjusted_weight_unscaled(weight, strength) == RInt(weight)
adjusted_weight(weight, strength) == Reduce(RMul(RInt(weight), R(strength, 100)))

NoScores == [alta_score |-> Zero, baixa_score |-> Zero, total_weight |-> 0]

\* one iteration of "for tf, analysis in timeframes.items()"
bias_item(acc, item) ==
    IF item.tf \in DOMAIN weights
    THEN LET weight == weights[item.tf]
             aw == adjusted_weight(weight, item.trend_strength)
         IN [alta_score |-> IF item.trend = "ALTA"
                            THEN Reduce(RAdd(acc.alta_score, aw)) ELSE acc.alta_score,
             baixa_score |-> IF item.trend = "ALTA" THEN acc.baixa_score
                             ELSE IF item.trend = "BAIXA"
                             THEN Reduce(RAdd(acc.baixa_score, aw)) ELSE acc.baixa_score,
             total_weight |-> acc.total_weight + weight]
    ELSE acc

\* a faulty variant: 40% of the weight decides
BiasLimit_low == R(4, 10)
BiasLimit == R(6, 10)

\* what follows the loop
bias_result(acc) ==
    IF acc.total_weight = 0 THEN "NEUTRO"
    ELSE LET alta_pct == RDiv(acc.alta_score, RInt(acc.total_weight))
             baixa_pct == RDiv(acc.baixa_score, RInt(acc.total_weight))
         IN IF RGt(alta_pct, BiasLimit) THEN "ALTA"
            ELSE IF RGt(baixa_pct, BiasLimit) THEN "BAIXA"
            ELSE "NEUTRO"

RECURSIVE bias_loop(_, _, _)
bias_loop(timeframes, k, acc) ==
    IF k > Len(timeframes) THEN acc
    ELSE bias_loop(timeframes, k + 1, bias_item(acc, timeframes[k]))

determine_overall_bias(timeframes) ==
    IF timeframes = <<>> THEN "NEUTRO"
    ELSE bias_result(bias_loop(timeframes, 1, NoScores))

(***************************************************************************)
(* The dicts the aggregation is run on: each configured timeframe absent   *)
(* or present with a trend and a strength, in the order in which           *)
(* analyze_multi_timeframe inserts them, and possibly a key that is not a  *)
(* configured timeframe.                                                   *)
(***************************************************************************)
TfOrder == <<"15m", "1h", "1d", "1wk">>
Trends == {"ALTA", "BAIXA", "INDEFINIDA"}
Strengths == {0, 60, 65, 100}
Absent == [present |-> FALSE, trend |-> "INDEFINIDA", trend_strength |-> 0]
Presents == [present : {TRUE}, trend : Trends, trend_strength : Strengths]
OtherKey == "4h"
DictOf(f, other) ==
    LET all == [k \in 1..4 |-> f[TfOrder[k]]]
        keys == SelectSeq([k \in 1..4 |-> k], LAMBDA k : all[k].present)
        items == [j \in 1..Len(keys) |->
                     Item(TfOrder[keys[j]], all[keys[j]].trend, all[keys[j]].trend_strength, FALSE)]
    IN IF other THEN Append(items, Item(OtherKey, "ALTA", 100, FALSE)) ELSE items
BiasDicts ==
    {DictOf(f, other) : f \in [{"15m", "1h", "1d", "1wk"} -> {Absent} \cup Presents],
                        other \in BOOLEAN}

BiasInit ==
    /\ b_timeframes \in BiasDicts
    /\ b_pc = "call"
    /\ b_k = 0
    /\ b_acc = NoScores
    /\ b_ret = "none"
    /\ ScanIdle /\ MtfIdle /\ SignalIdle /\ CallIdle /\ BatchIdle /\ FrameIdle

\* "if not timeframes: return NEUTRO", else the three accumulators at zero
BiasEnter ==
    /\ b_pc = "call"
    /\ IF b_timeframes = <<>>
       THEN b_ret' = "NEUTRO" /\ b_pc' = "done" /\ UNCHANGED <<b_k, b_acc>>
       ELSE b_acc' = NoScores /\ b_k' = 1 /\ b_pc' = "loop" /\ UNCHANGED b_ret
    /\ UNCHANGED <<b_timeframes, scanVars, mtfVars, signalVars, callVars, batchVars, frameVars>>

BiasItem ==
    /\ b_pc = "loop"
    /\ b_k <= Len(b_timeframes)
    /\ b_acc' = bias_item(b_acc, b_timeframes[b_k])
    /\ b_k' = b_k + 1
    /\ UNCHANGED <<b_timeframes, b_pc, b_ret, scanVars, mtfVars, signalVars, callVars, batchVars, frameVars>>

BiasReturn ==
    /\ b_pc = "loop"
    /\ b_k > Len(b_timeframes)
    /\ b_ret' = bias_result(b_acc)
    /\ b_pc' = "done"
    /\ UNCHANGED <<b_timeframes, b_k, b_acc, scanVars, mtfVars, signalVars, callVars, batchVars, frameVars>>

BiasNext == BiasEnter \/ BiasItem \/ BiasReturn

SpecBias == BiasInit /\ [][BiasNext]_vars

(***************************************************************************)
(* Claims on _determine_overall_bias.  The quotients are restated on       *)
(* integers: score / total > 0.6, with score the sum of weight times       *)
(* strength / 100, is  sum(weight * strength) > 60 * total.                *)
(***************************************************************************)
HierarchyWeight(tf) ==
    CASE tf = "1wk" -> 40 [] tf = "1d" -> 30 [] tf = "1h" -> 20 [] tf = "15m" -> 10 [] OTHER -> 0
RECURSIVE ScoreFrom(_, _, _)
ScoreFrom(timeframes, trend, k) ==
    IF k > Len(timeframes) THEN 0
    ELSE (IF timeframes[k].trend = trend
          THEN HierarchyWeight(timeframes[k].tf) * timeframes[k].trend_strength ELSE 0)
         + ScoreFrom(timeframes, trend, k + 1)
ScoreOf(timeframes, trend) == ScoreFrom(timeframes, trend, 1)
RECURSIVE TotalFrom(_, _)
TotalFrom(timeframes, k) ==
    IF k > Len(timeframes) THEN 0
    ELSE HierarchyWeight(timeframes[k].tf) + TotalFrom(timeframes, k + 1)
TotalOf(timeframes) == TotalFrom(timeframes, 1)
Exceeds(timeframes, trend) ==
    TotalOf(timeframes) > 0 /\ ScoreOf(timeframes, trend) > 60 * TotalOf(timeframes)
BiasDone == b_pc = "done"

\* C10: _determine_overall_bias returns ALTA exactly when the ALTA score over
\* the unscaled total weight of the present timeframes exceeds 0.6, BAIXA
\* exactly when that is not so and the BAIXA quotient exceeds 0.6, NEUTRO
\* otherwise (also for an empty dict); ALTA and BAIXA never both qualify.
C10_OverallBias ==
    BiasDone =>
        /\ b_ret = "ALTA" <=> Exceeds(b_timeframes, "ALTA")
        /\ b_ret = "BAIXA" <=> (~Exceeds(b_timeframes, "ALTA") /\ Exceeds(b_timeframes, "BAIXA"))
        /\ b_ret = "NEUTRO" <=> (~Exceeds(b_timeframes, "ALTA") /\ ~Exceeds(b_timeframes, "BAIXA"))
        /\ ~(Exceeds(b_timeframes, "ALTA") /\ Exceeds(b_timeframes, "BAIXA"))

\* a dict of three timeframes returns ALTA although one of them is BAIXA
C10_Witness ==
    /\ BiasDone
    /\ b_ret = "ALTA"
    /\ Len(b_timeframes) = 3
    /\ \E k \in 1..Len(b_timeframes) : b_timeframes[k].trend = "BAIXA"
    /\ \E k \in 1..Len(b_timeframes) : b_timeframes[k].trend_strength = 65

\* C11: when the strength-scaled score of the ALTA timeframes equals that of
\* the BAIXA timeframes (a 50/50 split), _determine_overall_bias returns NEUTRO.
C11_EvenSplit ==
    (BiasDone /\ ScoreOf(b_timeframes, "ALTA") = ScoreOf(b_timeframes, "BAIXA")) =>
        b_ret = "NEUTRO"

\* both scores are equal and not zero, and the call returned NEUTRO
C11_Witness ==
    /\ BiasDone
    /\ ScoreOf(b_timeframes, "ALTA") = ScoreOf(b_timeframes, "BAIXA")
    /\ ScoreOf(b_timeframes, "ALTA") > 0
    /\ 2 * ScoreOf(b_timeframes, "ALTA") = 100 * TotalOf(b_timeframes)
    /\ b_ret = "NEUTRO"

(***************************************************************************)
(* The per-timeframe analysis of analyze_multi_timeframe.  Sums and        *)
(* comparisons of numbers with different denominators go through the       *)
(* least common denominator.                                               *)
(***************************************************************************)
RPlus(a, b) ==
    IF a.d = 0 \/ b.d = 0 THEN NaN
    ELSE LET g == GCD(a.d, b.d)
         IN R(a.n * (b.d \div g) + b.n * (a.d \div g), (a.d \div g) * b.d)
RLess(a, b) ==
    /\ a.d > 0
    /\ b.d > 0
    /\ LET g == GCD(a.d, b.d) IN a.n * (b.d \div g) < b.n * (a.d \div g)

\* Series.tail(k).mean(): the mean of the values that are not NaN, NaN if none
RECURSIVE SumValid(_, _, _)
SumValid(col, lo, hi) ==
    CASE lo > hi -> Zero
      [] lo = hi -> IF IsNaN(col[lo]) THEN Zero ELSE Reduce(col[lo])
      [] OTHER -> Reduce(RPlus(SumValid(col, lo, (lo + hi) \div 2),
                               SumValid(col, (lo + hi) \div 2 + 1, hi)))
tail_mean(col, k) ==
    LET lo == Max(1, Len(col) - k + 1)
        valid == {t \in lo..Len(col) : ~IsNaN(col[t])}
        total == SumValid(col, lo, Len(col))
    IN IF valid = {} THEN NaN ELSE Reduce(R(total.n, total.d * Cardinality(valid)))

\* DataFrame.empty: no column, or no row
empty(data) == \A c \in DOMAIN data : data[c] = <<>>

\* _calculate_all_indicators: the averages that the trend, the strength and
\* the alignment read (mme400, vwap, atr and rsi are computed and never read
\* by analyze_multi_timeframe)
calculate_all_indicators(data) ==
    [mme9 |-> ewm_mean(data.close, Weights9),
     mma3 |-> rolling_mean(data.close, 3),
     mma21 |-> rolling_mean(data.close, 21),
     mma50 |-> rolling_mean(data.close, 50),
     mma200 |-> rolling_mean(data.close, 200)] @@ data

\* a faulty variant: an undefined SMA200 read as zero
bull_alignment_zero_filled(data, i) ==
    /\ RGt(iloc(data.mme9, i), iloc(data.mma21, i))
    /\ RGt(iloc(data.mma21, i), iloc(data.mma50, i))
    /\ RGt(iloc(data.mma50, i),
           IF IsNaN(iloc(data.mma200, i)) THEN Zero ELSE iloc(data.mma200, i))
bull_alignment(data, i) ==
    /\ RGt(iloc(data.mme9, i), iloc(data.mma21, i))
    /\ RGt(iloc(data.mma21, i), iloc(data.mma50, i))
    /\ RGt(iloc(data.mma50, i), iloc(data.mma200, i))
bear_alignment(data, i) ==
    /\ RLt(iloc(data.mme9, i), iloc(data.mma21, i))
    /\ RLt(iloc(data.mma21, i), iloc(data.mma50, i))
    /\ RLt(iloc(data.mma50, i), iloc(data.mma200, i))

\* the highs (lows) of the bars first+i, i in range(i, stop), that exceed
\* (are below) those of the bar before and the bar after
RECURSIVE swing_highs(_, _, _, _)
swing_highs(data, first, i, stop) ==
    IF i >= stop THEN <<>>
    ELSE (IF /\ iloc(data.high, first + i) > iloc(data.high, first + i - 1)
             /\ iloc(data.high, first + i) > iloc(data.high, first + i + 1)
          THEN <<iloc(data.high, first + i)>> ELSE <<>>)
         \o swing_highs(data, first, i + 1, stop)
RECURSIVE swing_lows(_, _, _, _)
swing_lows(data, first, i, stop) ==
    IF i >= stop THEN <<>>
    ELSE (IF /\ iloc(data.low, first + i) < iloc(data.low, first + i - 1)
             /\ iloc(data.low, first + i) < iloc(data.low, first + i + 1)
          THEN <<iloc(data.low, first + i)>> ELSE <<>>)
         \o swing_lows(data, first, i + 1, stop)

CountOf(seq, x) == Cardinality({k \in 1..Len(seq) : seq[k] = x})

\* the three votes of _identify_trend_advanced, each on the last 20 bars
ma_trend(data) ==
    LET latest == len(data) - 1
    IN IF bull_alignment(data, latest) THEN "ALTA"
       ELSE IF bear_alignment(data, latest) THEN "BAIXA" ELSE "NEUTRO"
structure_trend(data) ==
    LET first == len(data) - 20
        highs == swing_highs(data, first, 2, 20 - 2)
        lows == swing_lows(data, first, 2, 20 - 2)
        h == Len(highs)
        l == Len(lows)
    IN IF h >= 2 /\ l >= 2
       THEN IF highs[h] > highs[h - 1] /\ lows[l] > lows[l - 1] THEN "ALTA"
            ELSE IF highs[h] < highs[h - 1] /\ lows[l] < lows[l - 1] THEN "BAIXA"
            ELSE "NEUTRO"
       ELSE "NEUTRO"
slope_trend(data) ==
    LET latest == len(data) - 1
        ma21_slope == RDiv(RSub(iloc(data.mma21, latest), iloc(data.mma21, len(data) - 5)),
                           RInt(5))
    IN IF RGt(ma21_slope, Zero) THEN "ALTA"
       ELSE IF RLt(ma21_slope, Zero) THEN "BAIXA" ELSE "NEUTRO"

identify_trend_advanced(data) ==
    IF len(data) < 50 THEN "INDEFINIDA"
    ELSE
    LET trends == <<ma_trend(data), structure_trend(data), slope_trend(data)>>
    IN IF CountOf(trends, "ALTA") >= 2 THEN "ALTA"
       ELSE IF CountOf(trends, "BAIXA") >= 2 THEN "BAIXA"
       ELSE "INDEFINIDA"

\* the four components of _calculate_trend_strength, each read on the last bar
proximity_strength(data) ==
    LET latest == len(data) - 1
        close == Close(data, latest)
        d1 == RDiv(RAbs(RSub(iloc(data.mme9, latest), iloc(data.mma21, latest))), close)
        d2 == RDiv(RAbs(RSub(iloc(data.mma21, latest), iloc(data.mma50, latest))), close)
        avg_distance == RDiv(RPlus(d1, d2), RInt(2))
    IN IF RLess(avg_distance, R(1, 1000)) THEN 25
       ELSE IF RLess(avg_distance, R(5, 1000)) THEN 15
       ELSE IF RLess(avg_distance, R(1, 100)) THEN 10 ELSE 0
alignment_strength(data) ==
    LET latest == len(data) - 1
    IN IF \/ /\ RGt(iloc(data.mme9, latest), iloc(data.mma21, latest))
             /\ RGt(iloc(data.mma21, latest), iloc(data.mma50, latest))
          \/ /\ RLt(iloc(data.mme9, latest), iloc(data.mma21, latest))
             /\ RLt(iloc(data.mma21, latest), iloc(data.mma50, latest))
       THEN 25 ELSE 0
inclination_strength(data) ==
    LET slopes == <<tail_mean(diff(data.mme9), 5), tail_mean(diff(data.mma21), 5),
                    tail_mean(diff(data.mma50), 5)>>
    IN IF \/ \A k \in 1..3 : RGt(slopes[k], Zero)
          \/ \A k \in 1..3 : RLt(slopes[k], Zero)
       THEN 25 ELSE 0
volume_strength(data) ==
    LET latest == len(data) - 1
    IN IF "volume" \in DOMAIN data /\ len(data) > 20
       THEN LET recent_volume == R(SumRange(data.volume, len(data) - 5, latest), 5)
                avg_volume == R(SumRange(data.volume, len(data) - 20, latest), 20)
            IN IF RGt(recent_volume, RMul(avg_volume, R(12, 10))) THEN 25
               ELSE IF RGt(recent_volume, avg_volume) THEN 15 ELSE 0
       ELSE 10

calculate_trend_strength(data) ==
    IF len(data) < 20 THEN 0
    ELSE Min(proximity_strength(data) + alignment_strength(data)
             + inclination_strength(data) + volume_strength(data), 100)

check_ma_alignment(data) ==
    IF empty(data) THEN [aligned |-> FALSE, direction |-> "NEUTRO"]
    ELSE IF bull_alignment(data, len(data) - 1) THEN [aligned |-> TRUE, direction |-> "ALTA"]
    ELSE IF bear_alignment(data, len(data) - 1) THEN [aligned |-> TRUE, direction |-> "BAIXA"]
    ELSE [aligned |-> FALSE, direction |-> "NEUTRO"]

RECURSIVE total_confidence(_, _)
total_confidence(timeframes, k) ==
    IF k = 0 THEN 0
    ELSE total_confidence(timeframes, k - 1) + timeframes[k].trend_strength
         + (IF timeframes[k].aligned THEN 10 ELSE 0)
\* a faulty variant: the mean is returned as it is
calculate_mtf_confidence_uncapped(timeframes) ==
    IF timeframes = <<>> THEN Zero
    ELSE Reduce(R(total_confidence(timeframes, Len(timeframes)), Len(timeframes)))
calculate_mtf_confidence(timeframes) ==
    IF timeframes = <<>> THEN Zero
    ELSE RMin(Reduce(R(total_confidence(timeframes, Len(timeframes)), Len(timeframes))),
              RInt(100))

find_confluences(timeframes) ==
    IF timeframes = <<>> THEN <<>>
    ELSE
    LET ks == 1..Len(timeframes)
        altas == Cardinality({k \in ks : timeframes[k].trend = "ALTA"})
        baixas == Cardinality({k \in ks : timeframes[k].trend = "BAIXA"})
        aligned_count == Cardinality({k \in ks : timeframes[k].aligned})
        strong_trends == Cardinality({k \in ks : timeframes[k].trend_strength > 70})
    IN (IF altas >= 3 THEN <<"Tendencia de Alta Multi-Timeframe">>
        ELSE IF baixas >= 3 THEN <<"Tendencia de Baixa Multi-Timeframe">> ELSE <<>>)
       \o (IF aligned_count >= 2 THEN <<"Medias Alinhadas Multi-Timeframe">> ELSE <<>>)
       \o (IF strong_trends >= 2 THEN <<"Forca Consistente Multi-Timeframe">> ELSE <<>>)

(***************************************************************************)
(* What get_data_func does for one timeframe: it raises, returns no rows,  *)
(* returns rows without a close column (the first computation then raises  *)
(* KeyError), or returns bars.  The bars are a zigzag of TrendBars bars    *)
(* that drifts by drift ticks per bar, or a series too short to analyse;   *)
(* the volume column is missing, flat, or doubled on the last five bars.   *)
(***************************************************************************)
TrendBars == 52
ShortBars == 10
Zig == 3
FlatVolume == 10

TrendClose(drift, k) == BasePrice + TrendBars + drift * k + (IF k % 2 = 1 THEN Zig ELSE 0)
TrendOpen(drift, k) == IF k = 0 THEN TrendClose(drift, 0) ELSE TrendClose(drift, k - 1)
TrendFrame(n, drift, vol) ==
    LET ohlc ==
            [open |-> [t \in 1..n |-> TrendOpen(drift, t - 1)],
             close |-> [t \in 1..n |-> TrendClose(drift, t - 1)],
             high |-> [t \in 1..n |->
                         Max(TrendOpen(drift, t - 1), TrendClose(drift, t - 1))
                         + (IF t % 2 = 0 THEN Zig ELSE 0)],
             low |-> [t \in 1..n |->
                        Min(TrendOpen(drift, t - 1), TrendClose(drift, t - 1))
                        - (IF t % 2 = 1 THEN Zig ELSE 0)]]
    IN CASE vol = "none" -> ohlc
         [] vol = "flat" -> [volume |-> [t \in 1..n |-> FlatVolume]] @@ ohlc
         [] vol = "surge" ->
                [volume |-> [t \in 1..n |-> IF t > n - 5 THEN 2 * FlatVolume ELSE FlatVolume]]
                @@ ohlc

Bars(n, drift, vol) == [kind |-> "bars", n |-> n, drift |-> drift, vol |-> vol]
NoBars(kind) == [kind |-> kind, n |-> 0, drift |-> 0, vol |-> "none"]
Outcomes ==
    {NoBars("raises"), NoBars("empty"), NoBars("malformed"),
     Bars(TrendBars, 1, "surge"), Bars(TrendBars, 1, "none"), Bars(TrendBars, -1, "flat"),
     Bars(TrendBars, -1, "surge"), Bars(TrendBars, 0, "none"), Bars(ShortBars, 1, "flat")}

EmptyFrame == [open |-> <<>>, high |-> <<>>, low |-> <<>>, close |-> <<>>, volume |-> <<>>]
Raised == [status |-> "raised"]
Returned(data) == [status |-> "returned", data |-> data]

get_data_func(o) ==
    CASE o.kind = "raises" -> Raised
      [] o.kind = "empty" -> Returned(EmptyFrame)
      [] o.kind = "malformed" ->
            Returned([c \in {"open", "high", "low"} |-> [t \in 1..ShortBars |-> BasePrice]])
      [] OTHER -> Returned(TrendFrame(o.n, o.drift, o.vol))

\* the body of the try: the status says how it was left
try_timeframe(tf, o) ==
    LET got == get_data_func(o)
    IN IF got.status = "raised" THEN Raised
       ELSE IF empty(got.data) THEN [status |-> "continue"]
       ELSE IF "close" \notin DOMAIN got.data THEN Raised
       ELSE LET data == calculate_all_indicators(got.data)
            IN [status |-> "stored",
                item |-> Item(tf, identify_trend_advanced(data),
                              calculate_trend_strength(data),
                              check_ma_alignment(data).aligned)]

\* the same, evaluated once for each timeframe and outcome
try_table ==
    [tf \in {"15m", "1h", "1d", "1wk"}, o \in Outcomes |-> try_timeframe(tf, o)]

\* "except Exception: log; continue", and a faulty variant that leaves the loop
after_failure_break(k) == Len(TfOrder) + 1
after_failure(k) == k + 1

Analysis(timeframes) ==
    [timeframes |-> timeframes,
     overall_bias |-> determine_overall_bias(timeframes),
     confidence |-> calculate_mtf_confidence(timeframes),
     confluences |-> find_confluences(timeframes)]

RECURSIVE mtf_loop(_, _, _)
mtf_loop(outcomes, k, timeframes) ==
    IF k > Len(TfOrder) THEN timeframes
    ELSE LET r == try_table[TfOrder[k], outcomes[TfOrder[k]]]
         IN IF r.status = "stored" THEN mtf_loop(outcomes, k + 1, Append(timeframes, r.item))
            ELSE IF r.status = "continue" THEN mtf_loop(outcomes, k + 1, timeframes)
            ELSE mtf_loop(outcomes, after_failure(k), timeframes)
analyze_multi_timeframe(outcomes) == Analysis(mtf_loop(outcomes, 1, <<>>))

(***************************************************************************)
(* SpecMTF: analyze_multi_timeframe, one timeframe per step.               *)
(***************************************************************************)
MtfInit ==
    /\ m_outcomes \in [{"15m", "1h", "1d", "1wk"} -> Outcomes]
    /\ m_pc = "call"
    /\ m_k = 0
    /\ m_timeframes = <<>>
    /\ m_ret = <<>>
    /\ ScanIdle /\ BiasIdle /\ SignalIdle /\ CallIdle /\ BatchIdle /\ FrameIdle

MtfEnter ==
    /\ m_pc = "call"
    /\ m_timeframes' = <<>>
    /\ m_k' = 1
    /\ m_pc' = "loop"
    /\ UNCHANGED <<m_outcomes, m_ret, scanVars, biasVars, signalVars, callVars, batchVars, frameVars>>

MtfTimeframe ==
    /\ m_pc = "loop"
    /\ m_k <= Len(TfOrder)
    /\ LET r == try_table[TfOrder[m_k], m_outcomes[TfOrder[m_k]]]
       IN IF r.status = "stored"
          THEN m_timeframes' = Append(m_timeframes, r.item) /\ m_k' = m_k + 1
          ELSE IF r.status = "continue"
          THEN m_k' = m_k + 1 /\ UNCHANGED m_timeframes
          ELSE m_k' = after_failure(m_k) /\ UNCHANGED m_timeframes
    /\ UNCHANGED <<m_outcomes, m_pc, m_ret, scanVars, biasVars, signalVars, callVars, batchVars, frameVars>>

MtfReturn ==
    /\ m_pc = "loop"
    /\ m_k > Len(TfOrder)
    /\ m_ret' = Analysis(m_timeframes)
    /\ m_pc' = "done"
    /\ UNCHANGED <<m_outcomes, m_k, m_timeframes, scanVars, biasVars, signalVars, callVars, batchVars, frameVars>>

MtfNext == MtfEnter \/ MtfTimeframe \/ MtfReturn

SpecMTF == MtfInit /\ [][MtfNext]_vars

(***************************************************************************)
(* Claims on analyze_multi_timeframe                                       *)
(***************************************************************************)
\* the timeframes whose fetch returned a frame with rows and a close column
Succeeded(outcomes) == {k \in 1..Len(TfOrder) : outcomes[TfOrder[k]].kind = "bars"}
KeysOf(timeframes) == [k \in 1..Len(timeframes) |-> timeframes[k].tf]
RECURSIVE InOrder(_, _)
InOrder(ks, k) ==
    IF k > Len(TfOrder) THEN <<>>
    ELSE (IF k \in ks THEN <<TfOrder[k]>> ELSE <<>>) \o InOrder(ks, k + 1)

\* C4: whatever the data function does for each timeframe (bars, no rows, an
\* exception, a frame on which the computation raises), the analysis is
\* returned and never an exception; its timeframes are exactly the configured
\* ones that succeeded, those after a failed one included; with none the
\* bias is NEUTRO, the confidence 0 and there are no confluences.
C4_PartialFailure ==
    /\ m_pc \in {"off", "call", "loop", "done"}
    /\ m_pc = "loop" =>
          KeysOf(m_timeframes) = InOrder({k \in Succeeded(m_outcomes) : k < m_k}, 1)
    /\ m_pc = "done" =>
          /\ KeysOf(m_ret.timeframes) = InOrder(Succeeded(m_outcomes), 1)
          /\ Succeeded(m_outcomes) = {} =>
                /\ m_ret.overall_bias = "NEUTRO"
                /\ m_ret.confidence = Zero
                /\ m_ret.confluences = <<>>

\* the fetch of 15m raises, the computation on 1h raises, 1d has no rows, and
\* 1wk is analysed and returned
C4_Witness ==
    /\ m_pc = "done"
    /\ m_outcomes["15m"].kind = "raises"
    /\ m_outcomes["1h"].kind = "malformed"
    /\ m_outcomes["1d"].kind = "empty"
    /\ KeysOf(m_ret.timeframes) = <<"1wk">>
    /\ m_ret.overall_bias = "ALTA"

(***************************************************************************)
(* Zeus50TradingBot (main.py): indicators, candlestick patterns, trend,    *)
(* confidence and the ATR risk levels of the general signal.               *)
(***************************************************************************)
\* the averages read later (mme400 and vwap are computed and read by nobody)
calculate_moving_averages(data) ==
    IF empty(data) THEN data
    ELSE [mme9 |-> ewm_mean(data.close, Weights9),
          mma3 |-> rolling_mean(data.close, 3),
          mma21 |-> rolling_mean(data.close, 21),
          mma50 |-> rolling_mean(data.close, 50),
          mma200 |-> rolling_mean(data.close, 200)] @@ data

Bar(data, t) ==
    [open |-> data.open[t], high |-> data.high[t], low |-> data.low[t],
     close |-> data.close[t],
     body |-> IF data.close[t] >= data.open[t]
              THEN data.close[t] - data.open[t] ELSE data.open[t] - data.close[t],
     upper_shadow |-> data.high[t] - Max(data.close[t], data.open[t]),
     lower_shadow |-> Min(data.close[t], data.open[t]) - data.low[t]]

\* x >= 2.5 * body and x <= 0.1 * body, on ticks
AtLeast25(x, b) == 2 * x >= 5 * b
AtMostTenth(x, b) == 10 * x <= b

detect_hammer(data) ==
    [t \in 1..len(data) |->
        LET c == Bar(data, t)
        IN AtLeast25(c.lower_shadow, c.body) /\ AtMostTenth(c.upper_shadow, c.body)
           /\ c.body > 0]
detect_shooting_star(data) ==
    [t \in 1..len(data) |->
        LET c == Bar(data, t)
        IN AtLeast25(c.upper_shadow, c.body) /\ AtMostTenth(c.lower_shadow, c.body)
           /\ c.body > 0]
\* a faulty variant: containment alone, whatever the colours of the bodies
detect_bullish_engulfing_contained(data) ==
    [t \in 1..len(data) |->
        /\ t > 1
        /\ data.open[t] < data.close[t - 1]
        /\ data.close[t] > data.open[t - 1]]
detect_bullish_engulfing(data) ==
    [t \in 1..len(data) |->
        /\ t > 1
        /\ data.close[t - 1] < data.open[t - 1]
        /\ data.close[t] > data.open[t]
        /\ data.open[t] < data.close[t - 1]
        /\ data.close[t] > data.open[t - 1]]
detect_bearish_engulfing(data) ==
    [t \in 1..len(data) |->
        /\ t > 1
        /\ data.close[t - 1] > data.open[t - 1]
        /\ data.close[t] < data.open[t]
        /\ data.open[t] > data.close[t - 1]
        /\ data.close[t] < data.open[t - 1]]
avg_body(data) == rolling_mean([t \in 1..len(data) |-> Bar(data, t).body], 20)
detect_bullish_marubozu(data) ==
    LET avg == avg_body(data)
    IN [t \in 1..len(data) |->
           LET c == Bar(data, t)
           IN /\ c.close > c.open
              /\ RGe(RInt(c.body), RMul(avg[t], R(15, 10)))
              /\ AtMostTenth(c.upper_shadow, c.body)
              /\ AtMostTenth(c.lower_shadow, c.body)]
detect_bearish_marubozu(data) ==
    LET avg == avg_body(data)
    IN [t \in 1..len(data) |->
           LET c == Bar(data, t)
           IN /\ c.close < c.open
              /\ RGe(RInt(c.body), RMul(avg[t], R(15, 10)))
              /\ AtMostTenth(c.upper_shadow, c.body)
              /\ AtMostTenth(c.lower_shadow, c.body)]

\* the pattern columns that the signal reads (enforcado and doji are computed
\* and only doji is copied, unread, into the analysis of the signal)
identify_candlestick_patterns(data) ==
    IF len(data) < 2 THEN data
    ELSE [martelo |-> detect_hammer(data),
          estrela_cadente |-> detect_shooting_star(data),
          engolfo_alta |-> detect_bullish_engulfing(data),
          engolfo_baixa |-> detect_bearish_engulfing(data),
          marubozu_alta |-> detect_bullish_marubozu(data),
          marubozu_baixa |-> detect_bearish_marubozu(data)] @@ data

\* local tops (bottoms) of the last 20 bars: above (below) the two bars on
\* each side
RECURSIVE local_highs(_, _, _, _)
local_highs(data, first, i, stop) ==
    IF i >= stop THEN <<>>
    ELSE (IF \A j \in {i - 2, i - 1, i + 1, i + 2} :
                 iloc(data.high, first + i) > iloc(data.high, first + j)
          THEN <<iloc(data.high, first + i)>> ELSE <<>>)
         \o local_highs(data, first, i + 1, stop)
RECURSIVE local_lows(_, _, _, _)
local_lows(data, first, i, stop) ==
    IF i >= stop THEN <<>>
    ELSE (IF \A j \in {i - 2, i - 1, i + 1, i + 2} :
                 iloc(data.low, first + i) < iloc(data.low, first + j)
          THEN <<iloc(data.low, first + i)>> ELSE <<>>)
         \o local_lows(data, first, i + 1, stop)

identify_trend(data) ==
    IF len(data) < 20 THEN "INDEFINIDA"
    ELSE
    LET first == len(data) - 20
        highs == local_highs(data, first, 2, 20 - 2)
        lows == local_lows(data, first, 2, 20 - 2)
        h == Len(highs)
        l == Len(lows)
    IN IF h >= 2 /\ l >= 2
       THEN IF highs[h] > highs[h - 1] /\ lows[l] > lows[l - 1] THEN "ALTA"
            ELSE IF highs[h] < highs[h - 1] /\ lows[l] < lows[l - 1] THEN "BAIXA"
            ELSE "INDEFINIDA"
       ELSE "INDEFINIDA"

calculate_signal_confidence(data, signal_type) ==
    IF empty(data) THEN 0
    ELSE
    LET latest == len(data) - 1
        close == Close(data, latest)
        mme9 == iloc(data.mme9, latest)
        mma21 == iloc(data.mma21, latest)
        mma50 == iloc(data.mma50, latest)
        averages ==
            IF signal_type = "BUY"
            THEN IF RGt(close, mme9) /\ RGt(mme9, mma21) /\ RGt(mma21, mma50) THEN 30 ELSE 0
            ELSE IF RLt(close, mme9) /\ RLt(mme9, mma21) /\ RLt(mma21, mma50) THEN 30 ELSE 0
        patterns ==
            IF signal_type = "BUY"
            THEN IF \/ iloc(data.martelo, latest) \/ iloc(data.engolfo_alta, latest)
                    \/ iloc(data.marubozu_alta, latest)
                 THEN 25 ELSE 0
            ELSE IF \/ iloc(data.estrela_cadente, latest) \/ iloc(data.engolfo_baixa, latest)
                    \/ iloc(data.marubozu_baixa, latest)
                 THEN 25 ELSE 0
        trend == identify_trend(data)
        with_trend ==
            IF (signal_type = "BUY" /\ trend = "ALTA") \/ (signal_type = "SELL" /\ trend = "BAIXA")
            THEN 20 ELSE 0
        ma_distance == RDiv(RAbs(RSub(mme9, mma21)), close)
        proximity == IF RLess(ma_distance, R(2, 1000)) THEN 15 ELSE 0
        volume ==
            IF "volume" \in DOMAIN data /\ len(data) > 20
            THEN LET avg_volume == R(SumRange(data.volume, len(data) - 20, latest), 20)
                 IN IF RGt(RInt(iloc(data.volume, latest)), RMul(avg_volume, R(12, 10)))
                    THEN 10 ELSE 0
            ELSE 0
    IN Min(averages + patterns + with_trend + proximity + volume, 100)

\* round(x, digits): to the nearest multiple of 1 / scale, ties to even
RoundTo(x, scale) ==
    IF x.d = 0 THEN NaN
    ELSE LET n == x.n * scale
             q == n \div x.d
             r == n - q * x.d
         IN IF 2 * r > x.d \/ (2 * r = x.d /\ q % 2 = 1) THEN R(q + 1, scale) ELSE R(q, scale)
\* five decimals of a price are one decimal of a tick
round5(x) == Reduce(RoundTo(x, 10))
round2(x) == Reduce(RoundTo(x, 100))

\* max over the three ranges of a bar; the ranges against the previous close
\* are NaN on bar 0 and skipped by max(axis=1)
true_range(data, t) ==
    LET high_low == data.high[t] - data.low[t]
        high_close == IF data.high[t] >= data.close[t - 1]
                      THEN data.high[t] - data.close[t - 1] ELSE data.close[t - 1] - data.high[t]
        low_close == IF data.low[t] >= data.close[t - 1]
                     THEN data.low[t] - data.close[t - 1] ELSE data.close[t - 1] - data.low[t]
    IN IF t = 1 THEN high_low ELSE Max(high_low, Max(high_close, low_close))

NoRisk == [found |-> FALSE]
calculate_risk_management(entry_price, signal_type, data) ==
    IF len(data) < 14 THEN NoRisk
    ELSE
    LET tr == [t \in 1..len(data) |-> true_range(data, t)]
        atr == iloc(rolling_mean(tr, 14), len(data) - 1)
        away(k) == Reduce(RMul(k, atr))
        stop_loss == IF signal_type = "BUY" THEN RSub(entry_price, away(RInt(2)))
                     ELSE RAdd(entry_price, away(RInt(2)))
        tp(k) == IF signal_type = "BUY" THEN RAdd(entry_price, away(k))
                 ELSE RSub(entry_price, away(k))
        tp1 == tp(R(15, 10))
        tp2 == tp(RInt(3))
        tp3 == tp(R(45, 10))
        risk == RAbs(RSub(entry_price, stop_loss))
        reward == RAbs(RSub(tp2, entry_price))
        risk_reward_ratio == IF RGt(risk, Zero) THEN Reduce(RDiv(reward, risk)) ELSE Zero
    IN [found |-> TRUE,
        stop_loss |-> round5(stop_loss),
        take_profit |-> <<round5(tp1), round5(tp2), round5(tp3)>>,
        risk_reward_ratio |-> round2(risk_reward_ratio),
        atr |-> round5(atr)]

(***************************************************************************)
(* RiskManager (risk_management.py)                                        *)
(***************************************************************************)
min_risk_reward == RInt(2)
min_confidence == RInt(60)

\* signal_type.upper() on the spellings the callers and the inputs use
upper(signal_type) == IF signal_type \in {"BUY", "buy", "Buy"} THEN "BUY" ELSE signal_type

TakeProfit(price, ratio, percentage) ==
    [price |-> round5(price), ratio |-> ratio, percentage |-> percentage]
\* a faulty variant: the second level at twice the risk
calculate_take_profit_levels_flat(entry_price, stop_loss, signal_type) ==
    LET risk == Reduce(RAbs(RSub(entry_price, stop_loss)))
        tp(k) == IF upper(signal_type) = "BUY"
                 THEN RAdd(entry_price, Reduce(RMul(risk, k)))
                 ELSE RSub(entry_price, Reduce(RMul(risk, k)))
    IN [tp1 |-> TakeProfit(tp(R(15, 10)), R(15, 10), 30),
        tp2 |-> TakeProfit(tp(RInt(2)), R(25, 10), 40),
        tp3 |-> TakeProfit(tp(RInt(4)), RInt(4), 30),
        risk |-> round5(risk),
        signal_type |-> signal_type]
calculate_take_profit_levels(entry_price, stop_loss, signal_type) ==
    LET risk == Reduce(RAbs(RSub(entry_price, stop_loss)))
        tp(k) == IF upper(signal_type) = "BUY"
                 THEN RAdd(entry_price, Reduce(RMul(risk, k)))
                 ELSE RSub(entry_price, Reduce(RMul(risk, k)))
    IN [tp1 |-> TakeProfit(tp(R(15, 10)), R(15, 10), 30),
        tp2 |-> TakeProfit(tp(R(25, 10)), R(25, 10), 40),
        tp3 |-> TakeProfit(tp(RInt(4)), RInt(4), 30),
        risk |-> round5(risk),
        signal_type |-> signal_type]

\* a faulty variant: a low confidence rejects the setup
validate_trade_setup_strict(entry_price, stop_loss, take_profit, confidence, weekend) ==
    LET risk == Reduce(RAbs(RSub(entry_price, stop_loss)))
        reward == Reduce(RAbs(RSub(take_profit, entry_price)))
        rr_ratio == Reduce(RDiv(reward, risk))
        low == RGt(risk, Zero) /\ RLt(rr_ratio, min_risk_reward)
    IN [valid |-> RGt(risk, Zero) /\ ~low /\ RGe(confidence, min_confidence),
        errors |-> IF RGt(risk, Zero)
                   THEN IF low THEN <<"R/R ratio abaixo do minimo">> ELSE <<>>
                   ELSE <<"Risco invalido (stop loss = entrada)">>,
        warnings |-> (IF RGe(confidence, min_confidence) THEN <<>>
                      ELSE <<"Confianca abaixo do recomendado">>)
                     \o (IF weekend THEN <<"Mercado Forex fechado (fim de semana)">>
                         ELSE <<>>),
        confidence_check |-> RGe(confidence, min_confidence)]
\* weekend is what _is_weekend() answers on the day of the call
validate_trade_setup(entry_price, stop_loss, take_profit, confidence, weekend) ==
    LET risk == Reduce(RAbs(RSub(entry_price, stop_loss)))
        reward == Reduce(RAbs(RSub(take_profit, entry_price)))
        rr_ratio == Reduce(RDiv(reward, risk))
        low == RGt(risk, Zero) /\ RLt(rr_ratio, min_risk_reward)
    IN [valid |-> RGt(risk, Zero) /\ ~low,
        errors |-> IF RGt(risk, Zero)
                   THEN IF low THEN <<"R/R ratio abaixo do minimo">> ELSE <<>>
                   ELSE <<"Risco invalido (stop loss = entrada)">>,
        warnings |-> (IF RGe(confidence, min_confidence) THEN <<>>
                      ELSE <<"Confianca abaixo do recomendado">>)
                     \o (IF weekend THEN <<"Mercado Forex fechado (fim de semana)">>
                         ELSE <<>>),
        confidence_check |-> RGe(confidence, min_confidence)]

max_position_risk == R(1, 100)
golden_week_multiplier == R(1, 2)
\* today.day <= 7
is_golden_week_on(day) == day <= 7
\* a price counted in ticks, as a price
PriceOf(x) == Reduce(R(x.n, x.d * 10000))

\* is_golden_week is "true", "false" or "none" (the default, answered by
\* _is_golden_week() from the day of the month)
calculate_position_size(account_balance, entry_price, stop_loss, risk_percentage, is_golden_week, day) ==
    LET golden == IF is_golden_week = "none" THEN is_golden_week_on(day)
                  ELSE is_golden_week = "true"
        adjusted == IF golden THEN Reduce(RMul(risk_percentage, golden_week_multiplier))
                    ELSE risk_percentage
        limited == RMin(adjusted, Reduce(RMul(max_position_risk, RInt(100))))
        risk_amount == Reduce(RMul(account_balance, Reduce(RDiv(limited, RInt(100)))))
        price_risk == PriceOf(RAbs(RSub(entry_price, stop_loss)))
        position_size == Reduce(RDiv(risk_amount, price_risk))
    IN IF RLe(price_risk, Zero)
       THEN [error |-> TRUE, position_size |-> Zero, risk_amount |-> Zero]
       ELSE [error |-> FALSE,
             position_size |-> round2(position_size),
             risk_amount |-> round2(risk_amount),
             risk_percentage |-> limited,
             price_risk |-> PriceOf(round5(RAbs(RSub(entry_price, stop_loss)))),
             is_golden_week |-> golden,
             max_loss |-> round2(risk_amount)]

round4(x) == Reduce(RoundTo(x, 10000))
\* a float division: by zero it raises ZeroDivisionError
Raises(exception) == [outcome |-> "raises", exception |-> exception]
optimize_position_sizing(account_balance, win_rate, avg_win, avg_loss, confidence) ==
    LET p == Reduce(RDiv(win_rate, RInt(100)))
        q == Reduce(RSub(RInt(1), p))
        b == Reduce(RDiv(avg_win, avg_loss))
        kelly_fraction == Reduce(RDiv(Reduce(RSub(Reduce(RMul(b, p)), q)), b))
        confidence_multiplier == Reduce(RDiv(confidence, RInt(100)))
        adjusted_kelly == Reduce(RMul(kelly_fraction, confidence_multiplier))
        safe_kelly == RMin(Reduce(RMul(adjusted_kelly, R(1, 4))), R(2, 100))
        recommended_risk_pct == RMax(Reduce(RMul(safe_kelly, RInt(100))), R(1, 2))
        recommended_risk_amount ==
            Reduce(RMul(account_balance, Reduce(RDiv(recommended_risk_pct, RInt(100)))))
    IN IF RLe(avg_loss, Zero) THEN [outcome |-> "error"]
       ELSE IF REq(b, Zero) THEN Raises("ZeroDivisionError")
       ELSE [outcome |-> "result",
             kelly_fraction |-> round4(kelly_fraction),
             adjusted_kelly |-> round4(adjusted_kelly),
             safe_kelly |-> round4(safe_kelly),
             recommended_risk_pct |-> round2(recommended_risk_pct),
             recommended_risk_amount |-> round2(recommended_risk_amount),
             win_rate |-> win_rate,
             avg_win_loss_ratio |-> round2(b),
             confidence_factor |-> confidence]

(***************************************************************************)
(* What the data collaborator hands to generate_trading_signal: a failure, *)
(* no rows, rows without a high column, a quiet series with free last bars *)
(* (the family of the detectors), or a ramp: a series that moves by drift  *)
(* ticks on every bar and by twice that on the last, without wicks, with   *)
(* no volume column or a volume that doubles on the last bar; or a         *)
(* pullback at the end of a rising ramp.                                   *)
(***************************************************************************)
\* a faulty variant: 49 bars are enough
MinSignalBars_low == 50 - 1
MinSignalBars == 50
RampBars == 55

RampClose(n, drift, k) == BasePrice + n + drift * k + (IF k = n - 1 THEN drift ELSE 0)
RampOpen(n, drift, k) == IF k = 0 THEN RampClose(n, drift, 0) ELSE RampClose(n, drift, k - 1)
RampFrame(n, drift, vol) ==
    LET ohlc ==
            [open |-> [t \in 1..n |-> RampOpen(n, drift, t - 1)],
             close |-> [t \in 1..n |-> RampClose(n, drift, t - 1)],
             high |-> [t \in 1..n |-> Max(RampOpen(n, drift, t - 1), RampClose(n, drift, t - 1))],
             low |-> [t \in 1..n |-> Min(RampOpen(n, drift, t - 1), RampClose(n, drift, t - 1))]]
    IN IF vol = "none" THEN ohlc
       ELSE [volume |-> [t \in 1..n |-> IF t = n THEN 2 * FlatVolume ELSE FlatVolume]] @@ ohlc

\* a pullback: a ramp that rises by one tick on every bar and falls by two
\* on the last, which so closes under the low of the bar before it
PullbackClose(n, k) == BasePrice + n + (IF k = n - 1 THEN k - 3 ELSE k)
PullbackOpen(n, k) == IF k = 0 THEN PullbackClose(n, 0) ELSE PullbackClose(n, k - 1)
PullbackFrame(n) ==
    [open |-> [t \in 1..n |-> PullbackOpen(n, t - 1)],
     close |-> [t \in 1..n |-> PullbackClose(n, t - 1)],
     high |-> [t \in 1..n |-> Max(PullbackOpen(n, t - 1), PullbackClose(n, t - 1))],
     low |-> [t \in 1..n |-> Min(PullbackOpen(n, t - 1), PullbackClose(n, t - 1))]]

Series(n, tail) == [kind |-> "series", n |-> n, tail |-> tail, drift |-> 0, vol |-> "zero"]
Ramp(n, drift, vol) ==
    [kind |-> "ramp", n |-> n, tail |-> <<>>, drift |-> drift, vol |-> vol]
Pullback(n) == [kind |-> "pullback", n |-> n, tail |-> <<>>, drift |-> 1, vol |-> "none"]
NoData(kind) == [kind |-> kind, n |-> 0, tail |-> <<>>, drift |-> 0, vol |-> "none"]
SeriesLens == {MinSignalBars - 1, MinSignalBars, RampBars}
MainBars ==
    {Series(n, tail) : n \in SeriesLens, tail \in Tails}
    \cup {Ramp(RampBars, drift, vol) : drift \in {-1, 1}, vol \in {"none", "surge"}}
    \cup {Pullback(RampBars)}
MainData == {NoData("raises"), NoData("empty"), NoData("malformed")} \cup MainBars

main_frame(f) ==
    CASE f.kind = "series" -> Frame(f.n, 0, 0, f.tail, 0)
      [] f.kind = "pullback" -> PullbackFrame(f.n)
      [] OTHER -> RampFrame(f.n, f.drift, f.vol)

\* get_market_data: the frame of the collaborator, and an empty frame when
\* the collaborator fails or returns no rows
get_market_data(f) ==
    CASE f.kind \in {"raises", "empty"} -> EmptyFrame
      [] f.kind = "malformed" ->
            [c \in {"open", "low", "close"} |-> [t \in 1..MinSignalBars |-> BasePrice]]
      [] OTHER -> main_frame(f)

\* the frame after "calculate_moving_averages" and
\* "identify_candlestick_patterns", evaluated once for each series
prepared ==
    [f \in MainBars |->
        identify_candlestick_patterns(calculate_moving_averages(get_market_data(f)))]
\* the five detectors, each on its own copy of that frame
detect_table == [f \in MainBars, det \in Detectors |-> Detect(det, prepared[f])]

\* the timeframes as get_market_data returns them to analyze_multi_timeframe
SignalOutcomes == {NoBars("raises"), Bars(TrendBars, 1, "surge"), Bars(TrendBars, -1, "surge")}
through_get_market_data(outcomes) ==
    [tf \in DOMAIN outcomes |->
        IF outcomes[tf].kind = "raises" THEN NoBars("empty") ELSE outcomes[tf]]
mtf_table ==
    [outcomes \in [{"15m", "1h", "1d", "1wk"} -> SignalOutcomes] |->
        analyze_multi_timeframe(through_get_market_data(outcomes))]

(***************************************************************************)
(* generate_trading_signal and _generate_general_signal                    *)
(***************************************************************************)
None == [emitted |-> FALSE]
TradingSignal(signal_type, confidence, entry_price, stop_loss, take_profit, rr, setup_used) ==
    [emitted |-> TRUE, signal_type |-> signal_type, confidence |-> confidence,
     entry_price |-> entry_price, stop_loss |-> stop_loss, take_profit |-> take_profit,
     risk_reward_ratio |-> rr, setup_used |-> setup_used]

generate_general_signal(data, mtf_analysis) ==
    LET latest == len(data) - 1
        close == Close(data, latest)
        mme9 == iloc(data.mme9, latest)
        mma21 == iloc(data.mma21, latest)
        mma50 == iloc(data.mma50, latest)
        buy_conditions ==
            <<RGt(close, mme9), RGt(mme9, mma21), RGt(mma21, mma50),
              \/ iloc(data.martelo, latest) \/ iloc(data.engolfo_alta, latest)
              \/ iloc(data.marubozu_alta, latest),
              mtf_analysis.overall_bias \in {"ALTA", "NEUTRO"}>>
        sell_conditions ==
            <<RLt(close, mme9), RLt(mme9, mma21), RLt(mma21, mma50),
              \/ iloc(data.estrela_cadente, latest) \/ iloc(data.engolfo_baixa, latest)
              \/ iloc(data.marubozu_baixa, latest),
              mtf_analysis.overall_bias \in {"BAIXA", "NEUTRO"}>>
        signal_type == IF CountOf(buy_conditions, TRUE) >= 3 THEN "BUY"
                       ELSE IF CountOf(sell_conditions, TRUE) >= 3 THEN "SELL" ELSE "HOLD"
    IN IF signal_type = "HOLD" THEN None
       ELSE
       LET confidence == calculate_signal_confidence(data, signal_type)
           combined_confidence ==
               Reduce(RPlus(RMul(RInt(confidence), R(6, 10)),
                            RMul(mtf_analysis.confidence, R(4, 10))))
           risk_mgmt == calculate_risk_management(close, signal_type, data)
       IN IF RLt(combined_confidence, RInt(60)) THEN None
          ELSE IF ~risk_mgmt.found THEN None
          ELSE TradingSignal(signal_type, combined_confidence, close, risk_mgmt.stop_loss,
                             risk_mgmt.take_profit, risk_mgmt.risk_reward_ratio,
                             "Analise Geral")

\* max(setups_results, key=confidence): the first of the largest
\* a faulty variant: on a tie the later setup
best_of_last(setups_results) ==
    setups_results[CHOOSE k \in 1..Len(setups_results) :
                       /\ \A j \in 1..Len(setups_results) :
                             setups_results[j].confidence <= setups_results[k].confidence
                       /\ \A j \in (k + 1)..Len(setups_results) :
                             setups_results[j].confidence < setups_results[k].confidence]
best_of(setups_results) ==
    setups_results[CHOOSE k \in 1..Len(setups_results) :
                       /\ \A j \in 1..Len(setups_results) :
                             setups_results[j].confidence <= setups_results[k].confidence
                       /\ \A j \in 1..(k - 1) :
                             setups_results[j].confidence < setups_results[k].confidence]

\* "COMPRA" in setup_details["type"]
HasCompra(type) == type \in {"SETUP_91_COMPRA", "AGULHADA_COMPRA"}

\* the part of generate_trading_signal that follows a found setup
named_signal(setups_results, mtf_analysis, weekend) ==
    LET best_setup == best_of(setups_results)
        setup_details == best_setup.details
        signal_type == IF HasCompra(setup_details.type) THEN "BUY" ELSE "SELL"
        entry_price == Reduce(setup_details.entry_price)
        stop_loss == Reduce(setup_details.stop_loss)
        tp_levels == calculate_take_profit_levels(entry_price, stop_loss, signal_type)
        take_profit == <<tp_levels.tp1.price, tp_levels.tp2.price, tp_levels.tp3.price>>
        combined_confidence ==
            Reduce(RPlus(RMul(RInt(best_setup.confidence), R(7, 10)),
                         RMul(mtf_analysis.confidence, R(3, 10))))
        validation == validate_trade_setup(entry_price, stop_loss, take_profit[2],
                                           combined_confidence, weekend)
        risk == Reduce(RAbs(RSub(entry_price, stop_loss)))
        reward == Reduce(RAbs(RSub(take_profit[2], entry_price)))
        risk_reward_ratio == IF RGt(risk, Zero) THEN Reduce(RDiv(reward, risk)) ELSE Zero
    IN IF ~validation.valid THEN None
       ELSE TradingSignal(signal_type, combined_confidence, entry_price, stop_loss,
                          take_profit, risk_reward_ratio, best_setup.setup)

DetectorOrder ==
    <<"setup_91_compra", "setup_91_venda", "setup_92", "setup_ponto_continuo",
      "setup_agulhada">>

(***************************************************************************)
(* SpecSignal: one call of generate_trading_signal.  Any exception inside  *)
(* the call is caught by its handler, which returns None.                  *)
(***************************************************************************)
SignalInit ==
    /\ g_main \in MainData
    /\ g_outcomes \in [{"15m", "1h", "1d", "1wk"} -> SignalOutcomes]
    /\ g_pc = "call"
    /\ g_mtf = <<>>
    /\ g_setups = <<>>
    /\ g_ret = <<>>
    /\ ScanIdle /\ BiasIdle /\ MtfIdle /\ CallIdle /\ BatchIdle /\ FrameIdle

\* data = get_market_data(...); "if data.empty or len(data) < 50: return None"
SignalFetch ==
    /\ g_pc = "call"
    /\ LET data == get_market_data(g_main)
       IN IF empty(data) \/ len(data) < MinSignalBars
          THEN g_ret' = None /\ g_pc' = "done"
          ELSE g_pc' = "indicators" /\ UNCHANGED g_ret
    /\ UNCHANGED <<g_main, g_outcomes, g_mtf, g_setups, scanVars, biasVars, mtfVars, callVars, batchVars, frameVars>>

\* the indicator and pattern columns; a missing price column raises KeyError
SignalIndicators ==
    /\ g_pc = "indicators"
    /\ IF {"open", "high", "low", "close"} \subseteq DOMAIN get_market_data(g_main)
       THEN g_pc' = "mtf" /\ UNCHANGED g_ret
       ELSE g_ret' = None /\ g_pc' = "done"
    /\ UNCHANGED <<g_main, g_outcomes, g_mtf, g_setups, scanVars, biasVars, mtfVars, callVars, batchVars, frameVars>>

SignalMtf ==
    /\ g_pc = "mtf"
    /\ g_mtf' = mtf_table[g_outcomes]
    /\ g_pc' = "setups"
    /\ UNCHANGED <<g_main, g_outcomes, g_setups, g_ret, scanVars, biasVars, mtfVars, callVars, batchVars, frameVars>>

\* the five detectors in their order, the found setups appended
SignalSetups ==
    /\ g_pc = "setups"
    /\ g_setups' = SelectSeq([k \in 1..Len(DetectorOrder) |-> detect_table[g_main, DetectorOrder[k]]],
                             LAMBDA r : r.signal)
    /\ g_pc' = "chosen"
    /\ UNCHANGED <<g_main, g_outcomes, g_mtf, g_ret, scanVars, biasVars, mtfVars, callVars, batchVars, frameVars>>

SignalGeneral ==
    /\ g_pc = "chosen"
    /\ g_setups = <<>>
    /\ g_ret' = generate_general_signal(prepared[g_main], g_mtf)
    /\ g_pc' = "done"
    /\ UNCHANGED <<g_main, g_outcomes, g_mtf, g_setups, scanVars, biasVars, mtfVars, callVars, batchVars, frameVars>>

SignalNamed ==
    /\ g_pc = "chosen"
    /\ g_setups # <<>>
    /\ \E weekend \in BOOLEAN : g_ret' = named_signal(g_setups, g_mtf, weekend)
    /\ g_pc' = "done"
    /\ UNCHANGED <<g_main, g_outcomes, g_mtf, g_setups, scanVars, biasVars, mtfVars, callVars, batchVars, frameVars>>

SignalNext ==
    \/ SignalFetch
    \/ SignalIndicators
    \/ SignalMtf
    \/ SignalSetups
    \/ SignalGeneral
    \/ SignalNamed

SpecSignal == SignalInit /\ [][SignalNext]_vars

(***************************************************************************)
(* Claims on generate_trading_signal                                       *)
(***************************************************************************)
Returned_Signal == g_pc = "done" /\ g_ret.emitted
RewardOf(sig) == RAbs(RSub(sig.take_profit[2], sig.entry_price))
RiskOf(sig) == RAbs(RSub(sig.entry_price, sig.stop_loss))

\* C2: every signal that generate_trading_signal returns, from a named setup
\* or from the general fallback, has |tp2 - entry| / |entry - stop| >= 2.0.
C2_RewardRisk ==
    Returned_Signal =>
        /\ RGt(RiskOf(g_ret), Zero)
        /\ RGe(RewardOf(g_ret), RMul(RInt(2), RiskOf(g_ret)))

\* C3: every signal that generate_trading_signal returns, from a named setup
\* or from the general fallback, has a confidence of at least 60.
C3_ConfidenceFloor ==
    Returned_Signal => RGe(g_ret.confidence, RInt(60))

\* C5: generate_trading_signal never raises; when the collaborator fails,
\* returns no rows or fewer than 50 bars, or a step of the call raises, the
\* result is None.
C5_NeverRaises ==
    /\ g_pc \in {"off", "call", "indicators", "mtf", "setups", "chosen", "done"}
    /\ g_pc = "done" =>
          /\ g_ret = None \/ g_ret.emitted
          /\ (g_main.kind \in {"raises", "empty", "malformed"} \/ g_main.n < 50) =>
                g_ret = None

\* a frame of 50 rows without a high column passed the length check, the
\* pattern computation raised, and the call returned None
C5_Witness ==
    /\ g_pc = "done"
    /\ g_main.kind = "malformed"
    /\ len(get_market_data(g_main)) >= 50
    /\ g_mtf = <<>>
    /\ g_ret = None

(***************************************************************************)
(* SpecCall: one call of one operation that keeps no state between calls.  *)
(* c_op names the operation, c_in holds its arguments, c_ret its result.   *)
(***************************************************************************)
StopMoves == {0 - 10, 0 - 4, 0, 5}
TargetMoves == {0 - 25, 0 - 20, 0 - 19, 0, 8, 10, 20, 21}
Confidences == {RInt(0), RInt(59), R(119, 2), RInt(60), RInt(85)}

ValidateInputs ==
    [entry_price : {RInt(EntryPrice)},
     stop_loss : {RInt(EntryPrice + m) : m \in StopMoves},
     take_profit : {RInt(EntryPrice + m) : m \in TargetMoves},
     confidence : Confidences,
     weekend : BOOLEAN]

CallValidate ==
    /\ c_pc = "call"
    /\ c_op = "validate_trade_setup"
    /\ c_ret' = validate_trade_setup(c_in.entry_price, c_in.stop_loss, c_in.take_profit,
                                     c_in.confidence, c_in.weekend)
    /\ c_pc' = "done"
    /\ UNCHANGED <<c_op, c_in, scanVars, biasVars, mtfVars, signalVars, batchVars, frameVars>>

\* an entry on the five-decimal grid and one with a sixth decimal; stops from
\* two millionths to three ticks away, in hundredths of a tick
FineEntries == {RInt(EntryPrice), Reduce(R(EntryPrice * 100 + 4, 100))}
FineStopMoves == {0 - 300, 0 - 100, 0 - 20, 0 - 10, 0 - 2, 0, 2, 10, 20, 100}
SignalTypes == {"BUY", "buy", "SELL", "HOLD"}
TakeProfitInputs ==
    {[entry_price |-> e, stop_loss |-> Reduce(RAdd(e, R(m, 100))), signal_type |-> t] :
        e \in FineEntries, m \in FineStopMoves, t \in SignalTypes}

CallTakeProfit ==
    /\ c_pc = "call"
    /\ c_op = "calculate_take_profit_levels"
    /\ c_ret' = calculate_take_profit_levels(c_in.entry_price, c_in.stop_loss,
                                             c_in.signal_type)
    /\ c_pc' = "done"
    /\ UNCHANGED <<c_op, c_in, scanVars, biasVars, mtfVars, signalVars, batchVars, frameVars>>

Balances == {RInt(1000), RInt(10000)}
SizeStopMoves == {0 - 50, 0 - 20, 0, 30}
RiskPercentages == {R(1, 2), RInt(1), R(3, 2), RInt(2)}
Flags == {"true", "false", "none"}
Days == {3, 7, 8, 20}
PositionSizeInputs ==
    [account_balance : Balances,
     entry_price : {RInt(EntryPrice)},
     stop_loss : {RInt(EntryPrice + m) : m \in SizeStopMoves},
     risk_percentage : RiskPercentages,
     is_golden_week : Flags,
     day : Days]

CallPositionSize ==
    /\ c_pc = "call"
    /\ c_op = "calculate_position_size"
    /\ c_ret' = calculate_position_size(c_in.account_balance, c_in.entry_price,
                                        c_in.stop_loss, c_in.risk_percentage,
                                        c_in.is_golden_week, c_in.day)
    /\ c_pc' = "done"
    /\ UNCHANGED <<c_op, c_in, scanVars, biasVars, mtfVars, signalVars, batchVars, frameVars>>

WinRates == {RInt(0), RInt(50), RInt(90), RInt(100)}
AvgWins == {RInt(0), RInt(10), RInt(30)}
AvgLosses == {RInt(0 - 1), RInt(0), RInt(10)}
OptimizeInputs ==
    [account_balance : {RInt(10000)},
     win_rate : WinRates,
     avg_win : AvgWins,
     avg_loss : AvgLosses,
     confidence : {RInt(0), RInt(80), RInt(100)}]

CallOptimize ==
    /\ c_pc = "call"
    /\ c_op = "optimize_position_sizing"
    /\ c_ret' = optimize_position_sizing(c_in.account_balance, c_in.win_rate, c_in.avg_win,
                                         c_in.avg_loss, c_in.confidence)
    /\ c_pc' = "done"
    /\ UNCHANGED <<c_op, c_in, scanVars, biasVars, mtfVars, signalVars, batchVars, frameVars>>

\* frames of one to PatternBars bars, every open and close among four prices
\* (a body that engulfs another needs four distinct prices)
PatternBars == 3
PatternPrices == {BasePrice - 1, BasePrice, BasePrice + 1, BasePrice + 2}
PatternFrames ==
    UNION {[open : [1..n -> PatternPrices], close : [1..n -> PatternPrices]] :
              n \in 1..PatternBars}

CallBullishEngulfing ==
    /\ c_pc = "call"
    /\ c_op = "detect_bullish_engulfing"
    /\ c_ret' = detect_bullish_engulfing(c_in)
    /\ c_pc' = "done"
    /\ UNCHANGED <<c_op, c_in, scanVars, biasVars, mtfVars, signalVars, batchVars, frameVars>>

CallBearishEngulfing ==
    /\ c_pc = "call"
    /\ c_op = "detect_bearish_engulfing"
    /\ c_ret' = detect_bearish_engulfing(c_in)
    /\ c_pc' = "done"
    /\ UNCHANGED <<c_op, c_in, scanVars, biasVars, mtfVars, signalVars, batchVars, frameVars>>

\* the timeframes dict of an analysis: any of the four timeframes present,
\* each with a strength and an alignment answer
AlignedStrengths == {0, 60, 100}
AlignedPresents ==
    [present : {TRUE}, trend_strength : AlignedStrengths, aligned : BOOLEAN]
AlignedAbsent == [present |-> FALSE, trend_strength |-> 0, aligned |-> FALSE]
AlignedDict(f) ==
    LET keys == SelectSeq([k \in 1..4 |-> k], LAMBDA k : f[TfOrder[k]].present)
    IN [j \in 1..Len(keys) |->
           Item(TfOrder[keys[j]], "ALTA", f[TfOrder[keys[j]]].trend_strength,
                f[TfOrder[keys[j]]].aligned)]
ConfidenceDicts ==
    {AlignedDict(f) : f \in [{"15m", "1h", "1d", "1wk"} -> {AlignedAbsent} \cup AlignedPresents]}

CallMtfConfidence ==
    /\ c_pc = "call"
    /\ c_op = "calculate_mtf_confidence"
    /\ c_ret' = calculate_mtf_confidence(c_in)
    /\ c_pc' = "done"
    /\ UNCHANGED <<c_op, c_in, scanVars, biasVars, mtfVars, signalVars, batchVars, frameVars>>

\* GorilaStrategies.calculate_position_size: the second position sizing, with
\* the golden week read from the day of the month
\* a faulty variant: size and amount returned as computed, not rounded
GorilaStrategies_calculate_position_size_unrounded(account_balance, risk_pct, entry_price, stop_loss, day) ==
    LET risk_amount == Reduce(RMul(account_balance, Reduce(RDiv(risk_pct, RInt(100)))))
        price_risk == PriceOf(RAbs(RSub(entry_price, stop_loss)))
        position_size == Reduce(RDiv(risk_amount, price_risk))
        is_golden_week == day <= 7
        halved(x) == IF is_golden_week THEN Reduce(RMul(x, R(1, 2))) ELSE x
    IN IF REq(price_risk, Zero)
       THEN [error |-> TRUE]
       ELSE [error |-> FALSE,
             position_size |-> halved(position_size),
             risk_amount |-> halved(risk_amount),
             risk_percentage |-> risk_pct,
             price_risk |-> PriceOf(round5(RAbs(RSub(entry_price, stop_loss)))),
             is_golden_week |-> is_golden_week,
             max_loss |-> halved(risk_amount)]
GorilaStrategies_calculate_position_size(account_balance, risk_pct, entry_price, stop_loss, day) ==
    LET risk_amount == Reduce(RMul(account_balance, Reduce(RDiv(risk_pct, RInt(100)))))
        price_risk == PriceOf(RAbs(RSub(entry_price, stop_loss)))
        position_size == Reduce(RDiv(risk_amount, price_risk))
        is_golden_week == day <= 7
        halved(x) == IF is_golden_week THEN Reduce(RMul(x, R(1, 2))) ELSE x
    IN IF REq(price_risk, Zero)
       THEN [error |-> TRUE]
       ELSE [error |-> FALSE,
             position_size |-> round2(halved(position_size)),
             risk_amount |-> round2(halved(risk_amount)),
             risk_percentage |-> risk_pct,
             price_risk |-> PriceOf(round5(RAbs(RSub(entry_price, stop_loss)))),
             is_golden_week |-> is_golden_week,
             max_loss |-> round2(halved(risk_amount))]

GorilaSizeInputs ==
    [account_balance : Balances,
     risk_pct : RiskPercentages,
     entry_price : {RInt(EntryPrice)},
     stop_loss : {RInt(EntryPrice + m) : m \in SizeStopMoves},
     day : Days]

CallGorilaPositionSize ==
    /\ c_pc = "call"
    /\ c_op = "GorilaStrategies.calculate_position_size"
    /\ c_ret' = GorilaStrategies_calculate_position_size(c_in.account_balance, c_in.risk_pct,
                                                         c_in.entry_price, c_in.stop_loss,
                                                         c_in.day)
    /\ c_pc' = "done"
    /\ UNCHANGED <<c_op, c_in, scanVars, biasVars, mtfVars, signalVars, batchVars, frameVars>>

\* frames for the trend vote: a zigzag or a ramp, too short to vote on, long
\* enough for SMA50, or long enough for SMA200
LongBars == 201
TrendLens == {MinSignalBars - 1, RampBars, LongBars}
TrendInputs == [shape : {"zigzag", "ramp"}, n : TrendLens, drift : {0 - 1, 0, 1}]
trend_frame(in) ==
    calculate_all_indicators(IF in.shape = "zigzag" THEN TrendFrame(in.n, in.drift, "none")
                             ELSE RampFrame(in.n, in.drift, "none"))
\* the same, evaluated once for each input
trend_frames == [in \in TrendInputs |-> trend_frame(in)]

CallIdentifyTrend ==
    /\ c_pc = "call"
    /\ c_op = "_identify_trend_advanced"
    /\ c_ret' = identify_trend_advanced(trend_frames[c_in])
    /\ c_pc' = "done"
    /\ UNCHANGED <<c_op, c_in, scanVars, biasVars, mtfVars, signalVars, batchVars, frameVars>>

\* frames for the trend strength: a zigzag one bar short of the minimum, at
\* the minimum, or of RampBars bars; the volume column is missing, all zero
\* (the feed has no volume), flat, or doubled on the last five bars
MinStrengthBars == 20
StrengthInputs ==
    [n : {MinStrengthBars - 1, MinStrengthBars, RampBars},
     drift : {0 - 1, 0, 1},
     vol : {"none", "zero", "flat", "surge"}]
strength_frame(in) ==
    calculate_all_indicators(
        IF in.vol = "zero"
        THEN [volume |-> [t \in 1..in.n |-> 0]] @@ TrendFrame(in.n, in.drift, "none")
        ELSE TrendFrame(in.n, in.drift, in.vol))
\* the same, evaluated once for each input
strength_frames == [in \in StrengthInputs |-> strength_frame(in)]

CallTrendStrength ==
    /\ c_pc = "call"
    /\ c_op = "_calculate_trend_strength"
    /\ c_ret' = calculate_trend_strength(strength_frames[c_in])
    /\ c_pc' = "done"
    /\ UNCHANGED <<c_op, c_in, scanVars, biasVars, mtfVars, signalVars, batchVars, frameVars>>

\* generate_trading_signal from the detectors' results on: the fallback when
\* the list is empty, the signal of the best setup otherwise; "general" is
\* what _generate_general_signal returns
generate_trading_signal_after_setups(setups_results, general, mtf_analysis, weekend) ==
    IF setups_results = <<>> THEN general
    ELSE named_signal(setups_results, mtf_analysis, weekend)

\* what a detector can report: nothing, or one of these occurrences; the
\* continuation point may report one without price risk
SetupCases(det) ==
    CASE det = "setup_91_compra" ->
            {Occurrence("SETUP_91_COMPRA", RInt(BasePrice + 5), RInt(BasePrice), 50, R(5, BasePrice + 5))}
      [] det = "setup_91_venda" ->
            {Occurrence("SETUP_91_VENDA", RInt(BasePrice - 5), RInt(BasePrice), 51, R(5, BasePrice - 5))}
      [] det = "setup_92" ->
            {Occurrence("SETUP_92", RInt(BasePrice + 5), RInt(BasePrice), 52, R(5, BasePrice + 5))}
      [] det = "setup_ponto_continuo" ->
            {Occurrence("PONTO_CONTINUO", RInt(EntryPrice + 1), RInt(EntryPrice - 20), 53, R(21, EntryPrice + 1)),
             Occurrence("PONTO_CONTINUO", RInt(EntryPrice + 1), RInt(EntryPrice + 1), 53, Zero)}
      [] det = "setup_agulhada" ->
            {Occurrence("AGULHADA_COMPRA", RInt(BasePrice + 5), RInt(BasePrice - 2), 54, R(7, BasePrice + 5)),
             Occurrence("AGULHADA_VENDA", RInt(BasePrice - 5), RInt(BasePrice + 2), 54, R(7, BasePrice - 5))}
DetectorOutcomes(det) ==
    {NotFound} \cup {Finish(det, [NoSignals EXCEPT !.signals = <<o>>]) : o \in SetupCases(det)}
AllOutcomes == UNION {DetectorOutcomes(det) : det \in Detectors}
GeneralOutcomes ==
    {None,
     TradingSignal("BUY", RInt(60), RInt(BasePrice), RInt(BasePrice - 4),
                   <<RInt(BasePrice + 6), RInt(BasePrice + 12), RInt(BasePrice + 18)>>,
                   RInt(3), "Analise Geral")}
ChoiceInputs ==
    [results : {r \in [Detectors -> AllOutcomes] : \A det \in Detectors : r[det] \in DetectorOutcomes(det)},
     general : GeneralOutcomes,
     mtf_analysis : {[confidence |-> RInt(0)], [confidence |-> RInt(100)]}]

CallGenerateSignal ==
    /\ c_pc = "call"
    /\ c_op = "generate_trading_signal"
    /\ \E weekend \in BOOLEAN :
          c_ret' = generate_trading_signal_after_setups(
                       SelectSeq([k \in 1..Len(DetectorOrder) |-> c_in.results[DetectorOrder[k]]],
                                 LAMBDA r : r.signal),
                       c_in.general, c_in.mtf_analysis, weekend)
    /\ c_pc' = "done"
    /\ UNCHANGED <<c_op, c_in, scanVars, biasVars, mtfVars, signalVars, batchVars, frameVars>>

\* Series.cumsum()
RECURSIVE cumsum(_, _)
cumsum(col, t) == IF t = 0 THEN 0 ELSE cumsum(col, t - 1) + col[t]
\* the vwap column of _calculate_all_indicators (and of main.py's
\* calculate_moving_averages): a float division, 0 / 0 is NaN
vwap(data) ==
    IF "volume" \in DOMAIN data
    THEN LET pv == [t \in 1..len(data) |-> data.close[t] * data.volume[t]]
         IN [t \in 1..len(data) |->
                RDiv(RInt(cumsum(pv, t)), RInt(cumsum(data.volume, t)))]
    ELSE [t \in 1..len(data) |-> RInt(data.close[t])]

\* frames of VwapBars bars: two price levels, volumes of 0 or FlatVolume, or
\* no volume column
VwapBars == 3
VwapPrices == [1..VwapBars -> {BasePrice, BasePrice + 1}]
VwapVolumes == [1..VwapBars -> {0, FlatVolume}]
VwapFrame(c) == [open |-> c, high |-> c, low |-> c, close |-> c]
VwapInputs ==
    {VwapFrame(c) : c \in VwapPrices}
    \cup {[volume |-> v] @@ VwapFrame(c) : c \in VwapPrices, v \in VwapVolumes}

CallIndicators ==
    /\ c_pc = "call"
    /\ c_op = "_calculate_all_indicators"
    /\ c_ret' = SetCol(calculate_all_indicators(c_in), "vwap", vwap(c_in))
    /\ c_pc' = "done"
    /\ UNCHANGED <<c_op, c_in, scanVars, biasVars, mtfVars, signalVars, batchVars, frameVars>>

CallInit ==
    /\ ScanIdle /\ BiasIdle /\ MtfIdle /\ SignalIdle /\ BatchIdle /\ FrameIdle
    /\ c_pc = "call"
    /\ c_ret = <<>>
    /\ \/ c_op = "validate_trade_setup" /\ c_in \in ValidateInputs
       \/ c_op = "calculate_take_profit_levels" /\ c_in \in TakeProfitInputs
       \/ c_op = "calculate_position_size" /\ c_in \in PositionSizeInputs
       \/ c_op = "optimize_position_sizing" /\ c_in \in OptimizeInputs
       \/ c_op = "detect_bullish_engulfing" /\ c_in \in PatternFrames
       \/ c_op = "detect_bearish_engulfing" /\ c_in \in PatternFrames
       \/ c_op = "calculate_mtf_confidence" /\ c_in \in ConfidenceDicts
       \/ c_op = "GorilaStrategies.calculate_position_size" /\ c_in \in GorilaSizeInputs
       \/ c_op = "_identify_trend_advanced" /\ c_in \in TrendInputs
       \/ c_op = "_calculate_trend_strength" /\ c_in \in StrengthInputs
       \/ c_op = "generate_trading_signal" /\ c_in \in ChoiceInputs
       \/ c_op = "_calculate_all_indicators" /\ c_in \in VwapInputs

CallNext ==
    \/ CallValidate
    \/ CallTakeProfit
    \/ CallPositionSize
    \/ CallOptimize
    \/ CallBullishEngulfing
    \/ CallBearishEngulfing
    \/ CallMtfConfidence
    \/ CallGorilaPositionSize
    \/ CallIdentifyTrend
    \/ CallTrendStrength
    \/ CallGenerateSignal
    \/ CallIndicators

SpecCall == CallInit /\ [][CallNext]_vars

Called(op) == c_pc = "done" /\ c_op = op
Distance(a, b) == RAbs(RSub(a, b))

\* C12: validate_trade_setup answers valid = false exactly when |entry - stop|
\* is zero or |take_profit - entry| / |entry - stop| is below 2.0, and then
\* the errors list holds a reason; the confidence has no part in valid: below
\* 60 it adds a warning and leaves confidence_check false.
C12_Validation ==
    Called("validate_trade_setup") =>
        LET risk == Distance(c_in.entry_price, c_in.stop_loss)
            reward == Distance(c_in.take_profit, c_in.entry_price)
            rejected == REq(risk, Zero) \/ RLt(reward, RMul(RInt(2), risk))
        IN /\ c_ret.valid = ~rejected
           /\ rejected => c_ret.errors # <<>>
           /\ RLt(c_in.confidence, RInt(60)) =>
                 /\ c_ret.warnings # <<>>
                 /\ c_ret.confidence_check = FALSE
           /\ RGe(c_in.confidence, RInt(60)) => c_ret.confidence_check = TRUE

\* a setup at exactly 2.0 with a confidence of 59.5 is valid and carries the
\* confidence warning
C12_Witness ==
    /\ Called("validate_trade_setup")
    /\ c_in.stop_loss = RInt(EntryPrice - 10)
    /\ c_in.take_profit = RInt(EntryPrice + 20)
    /\ c_in.confidence = R(119, 2)
    /\ c_ret.valid
    /\ c_ret.errors = <<>>
    /\ Len(c_ret.warnings) >= 1
    /\ ~c_ret.confidence_check

(***************************************************************************)
(* Claims on calculate_take_profit_levels                                  *)
(***************************************************************************)
Ladder == <<R(15, 10), R(25, 10), RInt(4)>>
LevelsOf(ret) == <<ret.tp1.price, ret.tp2.price, ret.tp3.price>>
PercentagesOf(ret) == <<ret.tp1.percentage, ret.tp2.percentage, ret.tp3.percentage>>
\* the level at k times the risk on the profit side, before any rounding
Rung(in, k) ==
    LET away == Reduce(RMul(k, Distance(in.entry_price, in.stop_loss)))
    IN IF in.signal_type \in {"BUY", "buy"} THEN Reduce(RAdd(in.entry_price, away))
       ELSE Reduce(RSub(in.entry_price, away))
Ordered(in, a, b) ==
    IF in.signal_type \in {"BUY", "buy"} THEN RLess(a, b) ELSE RLess(b, a)
StagedExit(ret) ==
    /\ PercentagesOf(ret) = <<30, 40, 30>>
    /\ ret.tp1.percentage + ret.tp2.percentage + ret.tp3.percentage = 100
\* a price with at most five decimals: a whole number of tenths of a tick
FiveDecimals(x) == x.d > 0 /\ (x.n * 10) % x.d = 0

\* C13 as stated: tp1, tp2, tp3 lie at entry plus (BUY) or minus (any other
\* type) 1.5, 2.5 and 4.0 times |entry - stop|, the staged-exit percentages
\* are 30, 40, 30 and sum to 100, and for a nonzero risk the levels are
\* strictly ordered away from entry.
C13_Ladder_Exact ==
    Called("calculate_take_profit_levels") =>
        /\ \A k \in 1..3 : REq(LevelsOf(c_ret)[k], Rung(c_in, Ladder[k]))
        /\ StagedExit(c_ret)
        /\ ~REq(c_in.entry_price, c_in.stop_loss) =>
              /\ Ordered(c_in, c_in.entry_price, LevelsOf(c_ret)[1])
              /\ Ordered(c_in, LevelsOf(c_ret)[1], LevelsOf(c_ret)[2])
              /\ Ordered(c_in, LevelsOf(c_ret)[2], LevelsOf(c_ret)[3])

\* C13 as amended: each level is entry plus (BUY) or minus (any other type)
\* 1.5, 2.5, 4.0 times |entry - stop| rounded to five decimals (a price with
\* at most five decimals, no further than 0.000005 from the exact level), the
\* percentages are 30, 40, 30 and sum to 100, and for a risk of at least
\* 0.00002 the levels are strictly ordered away from entry.
C13_Ladder_Rounded ==
    Called("calculate_take_profit_levels") =>
        /\ \A k \in 1..3 :
              /\ FiveDecimals(LevelsOf(c_ret)[k])
              /\ RLe(Reduce(Distance(LevelsOf(c_ret)[k], Rung(c_in, Ladder[k]))), R(1, 20))
        /\ StagedExit(c_ret)
        /\ RGe(Distance(c_in.entry_price, c_in.stop_loss), R(2, 10)) =>
              /\ Ordered(c_in, c_in.entry_price, LevelsOf(c_ret)[1])
              /\ Ordered(c_in, LevelsOf(c_ret)[1], LevelsOf(c_ret)[2])
              /\ Ordered(c_in, LevelsOf(c_ret)[2], LevelsOf(c_ret)[3])

\* a SELL one tick below its stop: levels 1.5, 2.5 and 4 ticks under entry
C13_Witness ==
    /\ Called("calculate_take_profit_levels")
    /\ c_in.signal_type = "SELL"
    /\ c_in.entry_price = RInt(EntryPrice)
    /\ c_in.stop_loss = RInt(EntryPrice + 1)
    /\ LevelsOf(c_ret) = <<R(2 * EntryPrice - 3, 2), R(2 * EntryPrice - 5, 2),
                           RInt(EntryPrice - 4)>>
    /\ StagedExit(c_ret)

(***************************************************************************)
(* Claim on calculate_risk_management, the ATR path of the general signal  *)
(***************************************************************************)
AtrLadder == <<R(15, 10), RInt(3), R(45, 10)>>
GeneralSignal == Returned_Signal /\ g_ret.setup_used = "Analise Geral"
ProfitSide(sig, level) ==
    IF sig.signal_type = "BUY" THEN RLess(sig.entry_price, level)
    ELSE RLess(level, sig.entry_price)

\* C14: on the ATR path the three take-profit levels lie at 1.5, 3.0 and 4.5
\* times the realized |entry - stop| from entry, on the profit side of the
\* signal direction (to within the rounding of the stop and of the levels to
\* five decimals).
C14_AtrLadder ==
    GeneralSignal =>
        \A k \in 1..3 :
            /\ ProfitSide(g_ret, g_ret.take_profit[k])
            /\ RLe(Reduce(Distance(Reduce(Distance(g_ret.take_profit[k], g_ret.entry_price)),
                                   Reduce(RMul(AtrLadder[k], RiskOf(g_ret))))),
                   R(3, 10))

(***************************************************************************)
(* Claim on RiskManager.calculate_position_size                            *)
(***************************************************************************)
Double(x) == Reduce(RMul(RInt(2), x))
WithFlagFalse(in) ==
    calculate_position_size(in.account_balance, in.entry_price, in.stop_loss,
                            in.risk_percentage, "false", in.day)

\* C15: for every balance, entry # stop and requested risk percentage, the
\* call with the golden-week flag true (or the flag left to a day of the
\* month <= 7) returns a position size and a risk amount that are exactly
\* half of those returned for the same inputs with the flag forced false.
C15_GoldenHalf ==
    (/\ Called("calculate_position_size")
     /\ c_in.entry_price # c_in.stop_loss
     /\ c_ret.is_golden_week) =>
        /\ Double(c_ret.position_size) = WithFlagFalse(c_in).position_size
        /\ Double(c_ret.risk_amount) = WithFlagFalse(c_in).risk_amount

(***************************************************************************)
(* Claim on optimize_position_sizing                                       *)
(***************************************************************************)
\* C16: for every win rate, average win, average loss and confidence the
\* call returns a recommended_risk_pct within [0.5, 2.0], or the error
\* result when avg_loss <= 0; it never fails otherwise.
C16_KellyClamp ==
    Called("optimize_position_sizing") =>
        /\ c_ret.outcome # "raises"
        /\ c_ret.outcome = "error" <=> RLe(c_in.avg_loss, Zero)
        /\ c_ret.outcome = "result" =>
              /\ RGe(c_ret.recommended_risk_pct, R(1, 2))
              /\ RLe(c_ret.recommended_risk_pct, RInt(2))

(***************************************************************************)
(* Claim on the engulfing patterns                                         *)
(***************************************************************************)
Bullish(data, i) == iloc(data.close, i) > iloc(data.open, i)
Bearish(data, i) == iloc(data.close, i) < iloc(data.open, i)
\* the body of bar i reaches beyond both ends of the body of bar i - 1
ContainsUp(data, i) ==
    iloc(data.open, i) < iloc(data.close, i - 1) /\ iloc(data.close, i) > iloc(data.open, i - 1)
ContainsDown(data, i) ==
    iloc(data.open, i) > iloc(data.close, i - 1) /\ iloc(data.close, i) < iloc(data.open, i - 1)

\* C17: a bar i >= 1 is flagged bullish engulfing exactly when bar i - 1 is
\* bearish, bar i is bullish, open(i) < close(i-1) and close(i) > open(i-1);
\* bearish engulfing is the mirror image; containment without opposite body
\* colours is never flagged, and bar 0 is never flagged.
C17_Engulfing ==
    /\ Called("detect_bullish_engulfing") =>
          /\ Len(c_ret) = len(c_in)
          /\ ~iloc(c_ret, 0)
          /\ \A i \in 1..(len(c_in) - 1) :
                /\ iloc(c_ret, i) <=>
                      (Bearish(c_in, i - 1) /\ Bullish(c_in, i) /\ ContainsUp(c_in, i))
                /\ ~(Bearish(c_in, i - 1) /\ Bullish(c_in, i)) => ~iloc(c_ret, i)
    /\ Called("detect_bearish_engulfing") =>
          /\ Len(c_ret) = len(c_in)
          /\ ~iloc(c_ret, 0)
          /\ \A i \in 1..(len(c_in) - 1) :
                /\ iloc(c_ret, i) <=>
                      (Bullish(c_in, i - 1) /\ Bearish(c_in, i) /\ ContainsDown(c_in, i))
                /\ ~(Bullish(c_in, i - 1) /\ Bearish(c_in, i)) => ~iloc(c_ret, i)

\* three bars: a falling bar, a rising bar that engulfs it (flagged), then a
\* rising bar that contains the rising bar before it (not flagged)
C17_Witness ==
    /\ Called("detect_bullish_engulfing")
    /\ len(c_in) = 3
    /\ Bearish(c_in, 0) /\ Bullish(c_in, 1) /\ ContainsUp(c_in, 1)
    /\ Bullish(c_in, 2) /\ ContainsUp(c_in, 2)
    /\ c_ret = <<FALSE, TRUE, FALSE>>

(***************************************************************************)
(* Claim on _calculate_mtf_confidence                                      *)
(***************************************************************************)
RECURSIVE BonusSum(_, _)
\* the sum over the first k timeframes of strength, plus 10 when aligned
BonusSum(timeframes, k) ==
    IF k = 0 THEN 0
    ELSE BonusSum(timeframes, k - 1)
         + (IF timeframes[k].aligned THEN timeframes[k].trend_strength + 10
            ELSE timeframes[k].trend_strength)

\* C18: the aggregate confidence is the mean, over the present timeframes,
\* of (trend_strength + 10 if the timeframe's averages are aligned, else
\* trend_strength), capped at 100; it lies in [0, 100] and is 0 when no
\* timeframe is present.
C18_MtfConfidence ==
    Called("calculate_mtf_confidence") =>
        LET n == Len(c_in)
            sum == BonusSum(c_in, n)
        IN /\ n = 0 => REq(c_ret, Zero)
           /\ (n > 0 /\ sum <= 100 * n) => REq(c_ret, R(sum, n))
           /\ (n > 0 /\ sum > 100 * n) => REq(c_ret, RInt(100))
           /\ RGe(c_ret, Zero) /\ RLe(c_ret, RInt(100))

\* 1h at 100 and aligned, 1d at 60 and not: (110 + 60) / 2 = 85, although
\* one timeframe alone is above 100
C18_Witness ==
    /\ Called("calculate_mtf_confidence")
    /\ Len(c_in) = 2
    /\ c_in[1].trend_strength = 100 /\ c_in[1].aligned
    /\ c_in[2].trend_strength = 60 /\ ~c_in[2].aligned
    /\ c_ret = RInt(85)

(***************************************************************************)
(* SpecBatch: one request to /signals/all.  a_results[k] is what the call  *)
(* of generate_trading_signal for the k-th pair, followed by signal.dict() *)
(* inside the same try block, comes to: an exception, None, or a signal.   *)
(***************************************************************************)
forex_pairs ==
    <<"EURUSD=X", "GBPUSD=X", "USDJPY=X", "USDCHF=X",
      "AUDUSD=X", "USDCAD=X", "NZDUSD=X", "EURJPY=X">>
PairResults == {"raises", "none", "signal"}
\* signal.dict() of the signal of a pair
SignalDict(pair) == [symbol |-> pair, timeframe |-> "15m"]

\* a faulty variant: the first exception ends the loop
after_pair_error_break(k) == Len(forex_pairs) + 1
\* except Exception: the error is logged and the loop goes on
after_pair_error(k) == k + 1

BatchInit ==
    /\ ScanIdle /\ BiasIdle /\ MtfIdle /\ SignalIdle /\ CallIdle /\ FrameIdle
    /\ a_results \in [1..Len(forex_pairs) -> PairResults]
    /\ a_pc = "call"
    /\ a_k = 0
    /\ a_signals = <<>>
    /\ a_ret = <<>>

BatchEnter ==
    /\ a_pc = "call"
    /\ a_signals' = <<>>
    /\ a_k' = 1
    /\ a_pc' = "loop"
    /\ UNCHANGED <<a_results, a_ret, scanVars, biasVars, mtfVars, signalVars, callVars, frameVars>>

\* one pass of the loop body
BatchPair ==
    /\ a_pc = "loop"
    /\ a_k <= Len(forex_pairs)
    /\ CASE a_results[a_k] = "signal" ->
                /\ a_signals' = Append(a_signals, SignalDict(forex_pairs[a_k]))
                /\ a_k' = a_k + 1
         [] a_results[a_k] = "none" ->
                /\ a_k' = a_k + 1
                /\ UNCHANGED a_signals
         [] a_results[a_k] = "raises" ->
                /\ a_k' = after_pair_error(a_k)
                /\ UNCHANGED a_signals
    /\ UNCHANGED <<a_results, a_pc, a_ret, scanVars, biasVars, mtfVars, signalVars, callVars, frameVars>>

BatchReturn ==
    /\ a_pc = "loop"
    /\ a_k > Len(forex_pairs)
    /\ a_ret' = [signals |-> a_signals, count |-> Len(a_signals)]
    /\ a_pc' = "done"
    /\ UNCHANGED <<a_results, a_k, a_signals, scanVars, biasVars, mtfVars, signalVars, callVars, frameVars>>

BatchNext ==
    \/ BatchEnter
    \/ BatchPair
    \/ BatchReturn

SpecBatch == BatchInit /\ [][BatchNext]_vars

\* the dicts of the pairs that produced a signal, in pair order
RECURSIVE Produced(_, _)
Produced(results, k) ==
    IF k = 0 THEN <<>>
    ELSE IF results[k] = "signal"
         THEN Append(Produced(results, k - 1), SignalDict(forex_pairs[k]))
         ELSE Produced(results, k - 1)

\* C19: get_all_signals always returns a result: a failure or a none result
\* for one pair does not stop the remaining pairs from being processed, the
\* returned list holds exactly the signals of the pairs that produced one, in
\* pair order, and count equals the length of that list.
C19_Batch ==
    /\ a_pc \in {"off", "call", "loop", "done"}
    /\ a_pc \in {"call", "loop"} => ENABLED BatchNext
    /\ a_pc = "loop" => a_k \in 1..(Len(forex_pairs) + 1)
    /\ a_pc = "done" =>
          /\ a_ret.signals = Produced(a_results, Len(forex_pairs))
          /\ a_ret.count = Len(a_ret.signals)

\* the first pair raises, the second gives None, and the signals of the
\* third and of the last pair are still returned
C19_Witness ==
    /\ a_pc = "done"
    /\ a_results[1] = "raises"
    /\ a_results[2] = "none"
    /\ a_results[3] = "signal"
    /\ a_results[Len(forex_pairs)] = "signal"
    /\ a_ret.count >= 2
    /\ a_ret.signals[1].symbol = "USDJPY=X"
    /\ a_ret.signals[a_ret.count].symbol = "EURJPY=X"

(***************************************************************************)
(* SpecFrames: the five detector calls of one generate_trading_signal      *)
(* call, with frames as objects.  f_heap maps the name of a live frame     *)
(* object to its columns; "data" is the orchestrator's frame.  A detector  *)
(* assigns its columns to the object it is handed.  f_order is the order   *)
(* of the calls (DetectorOrder in the source).                             *)
(***************************************************************************)
\* a faulty variant: the frame itself is handed over
copy_shared(heap, ref) == [heap |-> heap, ref |-> ref]
\* data.copy(): a new object with the same columns
copy(heap, ref) == [heap |-> ("copy" :> heap[ref]) @@ heap, ref |-> "copy"]

\* a detector called on the object ref: data['mme9'] = ... assigns to that
\* object, and the scan reads it
run_setup(det, heap, ref) ==
    LET data == heap[ref]
    IN IF len(data) < MinBars(det)
       THEN [heap |-> heap, result |-> InsufficientData]
       ELSE LET written == Columns(det, data)
            IN [heap |-> [heap EXCEPT ![ref] = written],
                result |-> Finish(det, ScanFrom(det, written, LoopStart(det), NoSignals))]

\* the objects that are still referenced when the detector has returned
live(heap) == [name \in {"data"} |-> heap[name]]

CallOrders ==
    {DetectorOrder,
     <<"setup_agulhada", "setup_ponto_continuo", "setup_92", "setup_91_venda",
       "setup_91_compra">>,
     <<"setup_ponto_continuo", "setup_agulhada", "setup_91_compra", "setup_92",
       "setup_91_venda">>}
FrameBars == {f \in MainBars : len(main_frame(f)) >= MinSignalBars}

FramesInit ==
    /\ ScanIdle /\ BiasIdle /\ MtfIdle /\ SignalIdle /\ CallIdle /\ BatchIdle
    /\ f_main \in FrameBars
    /\ f_order \in CallOrders
    /\ f_pc = "call"
    /\ f_k = 0
    /\ f_heap = <<>>
    /\ f_results = <<>>

\* data = identify_candlestick_patterns(calculate_moving_averages(data))
FramesPrepare ==
    /\ f_pc = "call"
    /\ f_heap' = [name \in {"data"} |-> prepared[f_main]]
    /\ f_results' = <<>>
    /\ f_k' = 1
    /\ f_pc' = "setups"
    /\ UNCHANGED <<f_main, f_order, scanVars, biasVars, mtfVars, signalVars, callVars, batchVars>>

\* setup_x = self.gorila_strategies.setup_x(data.copy())
FramesSetup ==
    /\ f_pc = "setups"
    /\ f_k <= Len(f_order)
    /\ LET det == f_order[f_k]
           arg == copy(f_heap, "data")
           ran == run_setup(det, arg.heap, arg.ref)
       IN /\ f_results' = Append(f_results,
                                 [det |-> det, seen |-> DOMAIN arg.heap[arg.ref],
                                  result |-> ran.result])
          /\ f_heap' = live(ran.heap)
    /\ f_k' = f_k + 1
    /\ UNCHANGED <<f_main, f_order, f_pc, scanVars, biasVars, mtfVars, signalVars, callVars, batchVars>>

FramesDone ==
    /\ f_pc = "setups"
    /\ f_k > Len(f_order)
    /\ f_pc' = "done"
    /\ UNCHANGED <<f_main, f_order, f_k, f_heap, f_results, scanVars, biasVars, mtfVars, signalVars, callVars, batchVars>>

FramesNext ==
    \/ FramesPrepare
    \/ FramesSetup
    \/ FramesDone

SpecFrames == FramesInit /\ [][FramesNext]_vars

WrittenColumns ==
    {"mme9", "mme9_slope", "mma21", "mma21_slope", "mma50", "mma50_slope"}
\* the columns of the frame as the orchestrator built it
OwnColumns(f) == DOMAIN prepared[f]
\* the detector on a frame of its own, with no other call before or after
Alone(det, f) == detect_table[f, det]

\* C20: each of the five detectors receives its own copy of the indicator
\* frame: the columns a detector writes are visible neither to the detectors
\* called after it nor in the orchestrator's frame, so every detector returns
\* what it returns when run alone on the frame, whatever the order of the
\* calls.
C20_OwnCopy ==
    f_pc \in {"setups", "done"} =>
        /\ DOMAIN f_heap = {"data"}
        /\ DOMAIN f_heap["data"] = OwnColumns(f_main)
        /\ \A c \in WrittenColumns \cap OwnColumns(f_main) :
              f_heap["data"][c] = prepared[f_main][c]
        /\ \A j \in 1..Len(f_results) :
              /\ f_results[j].seen = OwnColumns(f_main)
              /\ f_results[j].result = Alone(f_results[j].det, f_main)

\* setup_agulhada ran first and wrote the three averages and their slopes,
\* setup_91_compra ran last; both found a signal, and the orchestrator's
\* frame has no slope column
C20_Witness ==
    /\ f_pc = "done"
    /\ f_order[1] = "setup_agulhada"
    /\ f_order[5] = "setup_91_compra"
    /\ f_results[1].result.signal
    /\ f_results[5].result.signal
    /\ "mme9_slope" \notin DOMAIN f_heap["data"]
    /\ "mme9_slope" \notin f_results[5].seen

(***************************************************************************)
(* Claim on the direction of a signal built from a named setup             *)
(***************************************************************************)
NamedSignal == Returned_Signal /\ g_ret.setup_used # "Analise Geral"

\* C21: every signal emitted from a named setup is directionally consistent:
\* for BUY the stop-loss is below the entry and the three take-profits are
\* above it, for SELL the stop-loss is above the entry and the three
\* take-profits are below it, whichever setup the orchestrator selected.
C21_Direction ==
    NamedSignal =>
        IF g_ret.signal_type = "BUY"
        THEN /\ RLess(g_ret.stop_loss, g_ret.entry_price)
             /\ \A k \in 1..3 : RLess(g_ret.entry_price, g_ret.take_profit[k])
        ELSE /\ RLess(g_ret.entry_price, g_ret.stop_loss)
             /\ \A k \in 1..3 : RLess(g_ret.take_profit[k], g_ret.entry_price)

(***************************************************************************)
(* Claim on the values the needle detector reports under an index          *)
(***************************************************************************)
\* C22: for every occurrence the needle detector records with index i, entry
\* and stop are computed from bar i itself (bullish: high(i) + 0.0001 and
\* min(EMA9(i), SMA21(i)) - 0.0002; bearish: low(i) - 0.0001 and
\* max(EMA9(i), SMA21(i)) + 0.0002) and the type matches the alignment
\* direction at bar i; values of an earlier bar are never reported under i.
C22_NeedleOwnBar ==
    sc_det = "setup_agulhada" =>
        \A s \in Recorded :
            /\ Ascending(sc_data, s.index) \/ Descending(sc_data, s.index)
            /\ s.type = (IF Descending(sc_data, s.index) THEN "AGULHADA_VENDA"
                         ELSE "AGULHADA_COMPRA")
            /\ REq(s.entry_price, EntryOf(sc_det, sc_data, s.index))
            /\ REq(s.stop_loss, StopOf(sc_det, sc_data, s.index))

(***************************************************************************)
(* Claim on occurrences without price risk                                 *)
(***************************************************************************)
\* C23: no detector records an occurrence whose entry price equals its
\* stop-loss; a candidate whose computed risk is not positive is rejected,
\* for 9.1 buy, 9.1 sell, 9.2, the continuation point and the needle.
C23_NoZeroRisk ==
    \A s \in Recorded : ~REq(s.entry_price, s.stop_loss)

(***************************************************************************)
(* Claim on the two position sizings                                       *)
(***************************************************************************)
SizingCall ==
    Called("calculate_position_size") \/ Called("GorilaStrategies.calculate_position_size")
RequestedPct == IF c_op = "calculate_position_size" THEN c_in.risk_percentage ELSE c_in.risk_pct
\* the percentage the operation sizes with: RiskManager limits it to
\* max_position_risk, GorilaStrategies takes it as requested
SizedPct ==
    IF c_op = "calculate_position_size" THEN RMin(RequestedPct, RInt(1)) ELSE RequestedPct
AmountAt(pct) == Reduce(RMul(c_in.account_balance, Reduce(RDiv(pct, RInt(100)))))
SizeAt(pct) == Reduce(RDiv(AmountAt(pct), PriceOf(Distance(c_in.entry_price, c_in.stop_loss))))
NoPositiveSize ==
    "position_size" \in DOMAIN c_ret => ~RLess(Zero, c_ret.position_size)
RejectsZeroRisk ==
    c_in.entry_price = c_in.stop_loss => c_ret.error /\ NoPositiveSize
Unadjusted == c_in.entry_price # c_in.stop_loss /\ ~c_ret.error /\ ~c_ret.is_golden_week

\* C24 as stated: both position sizings return an error result and no
\* positive size when entry equals stop; for entry # stop they return
\* position_size = risk_amount / |entry - stop| with risk_amount = balance x
\* risk_pct / 100 (read on the calls the golden-week adjustment leaves alone).
C24_Sizing_Exact ==
    SizingCall =>
        /\ RejectsZeroRisk
        /\ c_in.entry_price # c_in.stop_loss => ~c_ret.error
        /\ Unadjusted =>
              /\ c_ret.risk_amount = AmountAt(RequestedPct)
              /\ c_ret.position_size = SizeAt(RequestedPct)

\* C24 amended: both position sizings return an error result and no
\* positive size when entry equals stop; for entry # stop, outside the
\* golden week, they return risk_amount = balance x p / 100 and
\* position_size = risk_amount / |entry - stop|, both rounded to two
\* decimals, where p is the requested percentage in GorilaStrategies and
\* the requested percentage limited to 1 in RiskManager.
C24_Sizing_Rounded ==
    SizingCall =>
        /\ RejectsZeroRisk
        /\ c_in.entry_price # c_in.stop_loss => ~c_ret.error
        /\ Unadjusted =>
              /\ c_ret.risk_amount = round2(AmountAt(SizedPct))
              /\ c_ret.position_size = round2(SizeAt(SizedPct))

\* a call of RiskManager's sizing outside the golden week whose request is
\* over the limit and whose size is not a whole number of hundredths
C24_Witness ==
    /\ Called("calculate_position_size")
    /\ Unadjusted
    /\ RLess(RInt(1), RequestedPct)
    /\ c_ret.position_size # SizeAt(SizedPct)

(***************************************************************************)
(* Claim on _identify_trend_advanced                                       *)
(***************************************************************************)
Votes(data) == <<ma_trend(data), structure_trend(data), slope_trend(data)>>
Majority(votes) ==
    IF Cardinality({k \in 1..3 : votes[k] = "ALTA"}) >= 2 THEN "ALTA"
    ELSE IF Cardinality({k \in 1..3 : votes[k] = "BAIXA"}) >= 2 THEN "BAIXA"
    ELSE "INDEFINIDA"
Undefined200(data) == IsNaN(iloc(data.mma200, len(data) - 1))

\* C25: _identify_trend_advanced returns ALTA exactly when at least two of
\* its three votes (strict ordering of the averages, swing structure, sign
\* of the SMA21 slope) are ALTA, BAIXA exactly when at least two are BAIXA
\* and INDEFINIDA otherwise; it returns INDEFINIDA for a series shorter than
\* 50 bars, and the ordering vote is neutral whenever SMA200 is undefined.
C25_Majority ==
    Called("_identify_trend_advanced") =>
        LET data == trend_frames[c_in]
        IN /\ c_in.n < 50 => c_ret = "INDEFINIDA"
           /\ c_in.n >= 50 => c_ret = Majority(Votes(data))
           /\ Undefined200(data) => ma_trend(data) = "NEUTRO"

\* a ramp of RampBars rising bars: EMA9 > SMA21 > SMA50 and SMA200 undefined,
\* so the slope is the only ALTA vote and the answer is INDEFINIDA
C25_Witness ==
    /\ Called("_identify_trend_advanced")
    /\ c_in.n >= 50
    /\ Undefined200(trend_frames[c_in])
    /\ ma_alignment_bull(trend_frames[c_in], c_in.n - 1)
    /\ slope_trend(trend_frames[c_in]) = "ALTA"
    /\ c_ret = "INDEFINIDA"

(***************************************************************************)
(* Claim on the swing points of the structure vote                         *)
(***************************************************************************)
\* bar t strictly exceeds (is strictly below) its 2 neighbours on each side
LocalHigh(data, t) ==
    \A d \in {0 - 2, 0 - 1, 1, 2} : iloc(data.high, t) > iloc(data.high, t + d)
LocalLow(data, t) ==
    \A d \in {0 - 2, 0 - 1, 1, 2} : iloc(data.low, t) < iloc(data.low, t + d)
RECURSIVE LocalHighs(_, _, _)
LocalHighs(data, first, i) ==
    IF i >= 20 - 2 THEN <<>>
    ELSE (IF LocalHigh(data, first + i) THEN <<iloc(data.high, first + i)>> ELSE <<>>)
         \o LocalHighs(data, first, i + 1)
RECURSIVE LocalLows(_, _, _)
LocalLows(data, first, i) ==
    IF i >= 20 - 2 THEN <<>>
    ELSE (IF LocalLow(data, first + i) THEN <<iloc(data.low, first + i)>> ELSE <<>>)
         \o LocalLows(data, first, i + 1)

\* C26: in the swing-structure vote a bar of the last 20 counts as a local
\* high (low) only when its high (low) strictly exceeds (is strictly below)
\* that of its 2 neighbours on each side; a bar that dominates only its
\* immediate neighbours is not a swing point.
C26_SwingPoints ==
    (Called("_identify_trend_advanced") /\ c_in.n >= 50) =>
        LET data == trend_frames[c_in]
            first == len(data) - 20
        IN /\ swing_highs(data, first, 2, 20 - 2) = LocalHighs(data, first, 2)
           /\ swing_lows(data, first, 2, 20 - 2) = LocalLows(data, first, 2)

(***************************************************************************)
(* Claim on the volume component of _calculate_trend_strength              *)
(***************************************************************************)
\* no volume data: the column is absent, or every volume is zero
NoVolumeData(data) ==
    "volume" \notin DOMAIN data \/ \A t \in 1..len(data) : data.volume[t] = 0
MeanVolume(data, k) == R(SumRange(data.volume, len(data) - k, len(data) - 1), k)
VolumeConfirmation(data) ==
    IF RLess(Reduce(RMul(MeanVolume(data, 20), R(12, 10))), MeanVolume(data, 5)) THEN 25
    ELSE IF RLess(MeanVolume(data, 20), MeanVolume(data, 5)) THEN 15 ELSE 0

\* C27: the volume component is a flat 10 points exactly when no volume data
\* exists (column absent or all volumes zero), and otherwise 25, 15 or 0
\* points from the comparison of the 5-bar and the 20-bar mean volume; the
\* strength is the sum of the four components and lies in [0, 100].
C27_VolumeComponent ==
    (Called("_calculate_trend_strength") /\ c_in.n >= MinStrengthBars) =>
        LET data == strength_frames[c_in]
        IN /\ volume_strength(data) =
                 (IF NoVolumeData(data) THEN 10 ELSE VolumeConfirmation(data))
           /\ c_ret = proximity_strength(data) + alignment_strength(data)
                      + inclination_strength(data) + volume_strength(data)
           /\ c_ret \in 0..100

(***************************************************************************)
(* Claim on the occurrences of the continuation point                      *)
(***************************************************************************)
Sma21(data, i) == iloc(data.mma21, i)
TouchDistance(data, i) == RAbs(RSub(Low(data, i), Sma21(data, i)))
\* the five bars before i closed above their SMA21, which was defined
AboveBefore(data, i) ==
    /\ i >= 5
    /\ \A j \in (i - 5)..(i - 1) :
          ~IsNaN(Sma21(data, j)) /\ RLess(Sma21(data, j), Close(data, j))
Rising21(data, i) == RLess(Zero, RSub(Sma21(data, i), Sma21(data, i - 1)))
ContinuationPoints ==
    IF sc_det = "setup_ponto_continuo" THEN {s.index : s \in Recorded} ELSE {}

\* C28 as stated: every occurrence the continuation-point detector records
\* at bar i has SMA21 slope > 0 at i, |low(i) - SMA21(i)| within 0.1% of
\* SMA21(i), and close(j) > SMA21(j) with SMA21(j) defined for each of the 5
\* preceding bars; so none is recorded where one of them has no SMA21 yet.
C28_Touch_OfAverage ==
    \A i \in ContinuationPoints :
        /\ Rising21(sc_data, i)
        /\ RLe(TouchDistance(sc_data, i), Reduce(RMul(R(1, 1000), Sma21(sc_data, i))))
        /\ AboveBefore(sc_data, i)

\* C28 amended: the same, with |low(i) - SMA21(i)| within 0.1% of close(i).
C28_Touch_OfClose ==
    \A i \in ContinuationPoints :
        /\ Rising21(sc_data, i)
        /\ RLe(TouchDistance(sc_data, i), Reduce(RMul(R(1, 1000), Close(sc_data, i))))
        /\ AboveBefore(sc_data, i)

\* an occurrence whose low is within 0.1% of the close but not of SMA21
C28_Witness ==
    \E i \in ContinuationPoints :
        /\ RLess(Reduce(RMul(R(1, 1000), Sma21(sc_data, i))), TouchDistance(sc_data, i))
        /\ RLe(TouchDistance(sc_data, i), Reduce(RMul(R(1, 1000), Close(sc_data, i))))

(***************************************************************************)
(* Claim on the choice of the setup in generate_trading_signal             *)
(***************************************************************************)
FoundAt == {k \in 1..Len(DetectorOrder) : c_in.results[DetectorOrder[k]].signal}
ResultAt(k) == c_in.results[DetectorOrder[k]]
\* the found setup of highest base confidence, the earlier one on a tie
BestAt ==
    CHOOSE k \in FoundAt :
        \A j \in FoundAt :
            \/ ResultAt(j).confidence < ResultAt(k).confidence
            \/ ResultAt(j).confidence = ResultAt(k).confidence /\ k <= j
DirectionOf(type) == IF type \in {"SETUP_91_COMPRA", "AGULHADA_COMPRA"} THEN "BUY" ELSE "SELL"
\* the validation of a setup: of its entry, its stop and the second level
PassesValidation(r) ==
    LET entry == Reduce(r.details.entry_price)
        stop == Reduce(r.details.stop_loss)
        levels == calculate_take_profit_levels(entry, stop, DirectionOf(r.details.type))
    IN validate_trade_setup(entry, stop, levels.tp2.price, RInt(r.confidence), FALSE).valid

\* C29: for every combination of detector outcomes generate_trading_signal
\* takes the general fallback exactly when none of the five detectors
\* reports found; otherwise it builds the signal from the found setup of
\* highest base confidence, ties going to the earlier detector in the order
\* 9.1 buy, 9.1 sell, 9.2, continuation point, needle; and if that setup
\* fails validation it returns none, without another setup or the fallback.
C29_Choice ==
    Called("generate_trading_signal") =>
        IF FoundAt = {} THEN c_ret = c_in.general
        ELSE /\ c_ret.emitted <=> PassesValidation(ResultAt(BestAt))
             /\ c_ret.emitted =>
                   /\ c_ret.setup_used = ResultAt(BestAt).setup
                   /\ REq(c_ret.entry_price, ResultAt(BestAt).details.entry_price)
                   /\ REq(c_ret.stop_loss, ResultAt(BestAt).details.stop_loss)

\* the best setup has no price risk: none is returned although another
\* setup was found and the fallback had a signal
C29_Witness ==
    /\ Called("generate_trading_signal")
    /\ Cardinality(FoundAt) >= 2
    /\ ~PassesValidation(ResultAt(BestAt))
    /\ c_in.general.emitted
    /\ c_ret = None

(***************************************************************************)
(* Claim on the VWAP column                                                *)
(***************************************************************************)
RECURSIVE Turnover(_, _)
Turnover(data, t) ==
    IF t = 0 THEN 0 ELSE Turnover(data, t - 1) + data.close[t] * data.volume[t]
Traded(data, t) == SumRange(data.volume, 0, t - 1)

\* C30: the VWAP column equals, at every bar, the cumulative sum of close x
\* volume divided by the cumulative sum of volume from the start of the
\* series, and equals close at every bar when no volume data exists (column
\* absent, or all volumes zero so that the cumulative volume is zero).
C30_Vwap ==
    Called("_calculate_all_indicators") =>
        \A t \in 1..len(c_in) :
            IF NoVolumeData(c_in) THEN REq(c_ret.vwap[t], RInt(c_in.close[t]))
            ELSE IF Traded(c_in, t) = 0 THEN IsNaN(c_ret.vwap[t])
            ELSE REq(c_ret.vwap[t], R(Turnover(c_in, t), Traded(c_in, t)))

====
